---- MODULE Spec2Model ----
(***************************************************************************)
(* Model of the CCPP cap generation pipeline of xdsl-ccpp:                 *)
(*   generate-meta-cap  (transforms/suite_meta.py)                         *)
(*   generate-suite-cap (transforms/suite_cap.py)                          *)
(*   the frontend       (frontend/ccpp_xml.py)                             *)
(*   the ftn emitter    (backend/print_ftn.py)                             *)
(* together with the metadata model recovered from the operation tree      *)
(* (transforms/util/ccpp_descriptors.py) and the type conversions          *)
(* (transforms/util/typing.py).                                            *)
(***************************************************************************)
EXTENDS Integers, Sequences, FiniteSets, TLC

VARIABLES
    stage,      \* position of the pass pipeline / of the executed subroutine
    suite,      \* the ccpp.suite node: name and groups of scheme names
    props,      \* the ccpp.table_properties nodes, in tree order
    top,        \* the operations of the top-level module, in order
    ccpp,       \* the operations inside the module named ccpp
    init_fn,    \* result of generateSubroutineCall(.., "_init", "_initialize")
    fin_fn,     \* result of generateSubroutineCall(.., "_finalize")
    cap,        \* the <suite>_cap module built by match_and_rewrite
    running,    \* the generated subroutine being executed
    pc,         \* path of the next operation of the executed subroutine
    errflg,     \* content of the errflg slot during the execution
    called,     \* callees invoked so far by the execution, in order
    hints,      \* name_hint of each SSA value given to the emitter ("" is None)
    rets,       \* the operands of the func.return of the printed block
    heap,       \* the dictionaries referenced by the emitter contexts
    stack,      \* the emitter contexts: the root context and the descended ones
    dropped,    \* bindings made in a descended context that has returned
    returned,   \* the last request to _get_variable_name_for and its result
    output,     \* the statements printed for a generated subroutine
    scheme_files \* the metadata files given to the frontend, as lines of text

emitterVars == <<hints, rets, heap, stack, dropped, returned, output>>

vars == <<stage, suite, props, top, ccpp, init_fn, fin_fn, cap,
          running, pc, errflg, called,
          hints, rets, heap, stack, dropped, returned, output, scheme_files>>

(***************************************************************************)
(* Bounds of the model.                                                    *)
(***************************************************************************)
MaxSchemes == 2     \* scheme references in the suite
MaxErr == 1         \* error codes a scheme may return are 0..MaxErr

(***************************************************************************)
(* Strings that the code takes apart are sequences of characters.          *)
(***************************************************************************)
Digits == <<"0", "1", "2", "3", "4", "5", "6", "7", "8", "9">>

IsDigit(c) == \E d \in DOMAIN Digits : Digits[d] = c

DigitVal(c) == (CHOOSE d \in DOMAIN Digits : Digits[d] = c) - 1

\* str.split("="): the pieces between the = signs, in order
RECURSIVE SplitEq(_)
SplitEq(s) ==
    IF \A i \in DOMAIN s : s[i] # "="
    THEN <<s>>
    ELSE LET p == CHOOSE i \in DOMAIN s :
                      s[i] = "=" /\ \A j \in 1..(i - 1) : s[j] # "="
         IN  <<SubSeq(s, 1, p - 1)>> \o SplitEq(SubSeq(s, p + 1, Len(s)))

\* int(text) succeeds on a non-empty run of digits
IntOk(s) == Len(s) > 0 /\ \A i \in DOMAIN s : IsDigit(s[i])

RECURSIVE IntOf(_)
IntOf(s) ==
    IF Len(s) = 0 THEN 0
    ELSE 10 * IntOf(SubSeq(s, 1, Len(s) - 1)) + DigitVal(s[Len(s)])

\* "len=" in kind
HasLenEq(s) ==
    \E i \in 1..(Len(s) - 3) : SubSeq(s, i, i + 3) = <<"l", "e", "n", "=">>

(***************************************************************************)
(* Python dictionaries keep insertion order: a sequence of key/value       *)
(* entries with distinct keys.                                             *)
(***************************************************************************)
DictHas(d, key) == \E i \in DOMAIN d : d[i].k = key

DictGet(d, key) == d[CHOOSE i \in DOMAIN d : d[i].k = key].v

DictPut(d, key, val) ==
    IF DictHas(d, key)
    THEN [i \in DOMAIN d |-> IF d[i].k = key THEN [k |-> key, v |-> val] ELSE d[i]]
    ELSE Append(d, [k |-> key, v |-> val])

DictKeys(d) == [i \in DOMAIN d |-> d[i].k]

DictValues(d) == [i \in DOMAIN d |-> d[i].v]

Range(s) == {s[i] : i \in DOMAIN s}

RECURSIVE Flatten(_)
Flatten(ss) == IF Len(ss) = 0 THEN <<>> ELSE Head(ss) \o Flatten(Tail(ss))

(***************************************************************************)
(* CCPPItem: the attributes of an argument.  keys is the set of keys       *)
(* present in attrs; a field whose key is absent holds a placeholder.      *)
(***************************************************************************)
hasAttr(item, key) == key \in item.keys

(***************************************************************************)
(* TypeConversions                                                         *)
(***************************************************************************)
TEXT_TYPE_TO_MLIR_TYPE == <<[k |-> "character", v |-> "i8"],
                            [k |-> "integer", v |-> "i32"],
                            [k |-> "real", v |-> "f64"]>>

\* getBaseType asserts that the type is known
BaseTypeOk(text_type) == DictHas(TEXT_TYPE_TO_MLIR_TYPE, text_type)

getBaseType(text_type) == DictGet(TEXT_TYPE_TO_MLIR_TYPE, text_type)

MemRefType(elem, shape) == [memref |-> TRUE, elem |-> elem, shape |-> shape]

\* convert raises when the text after the first = of a len= kind is no number
ConvertOk(arg) ==
    /\ BaseTypeOk(arg.type)
    /\ (hasAttr(arg, "kind") /\ HasLenEq(arg.kind)) => IntOk(SplitEq(arg.kind)[2])

convert(arg) ==
    MemRefType(getBaseType(arg.type),
               IF hasAttr(arg, "kind") /\ HasLenEq(arg.kind)
               THEN <<IntOf(SplitEq(arg.kind)[2])>>
               ELSE <<>>)

(***************************************************************************)
(* BuildMetaDataDescriptions: the metadata model recovered from the tree.  *)
(* An ArgumentTable node is [name, type, args], a TableProperties node is  *)
(* [name, type, tables].                                                   *)
(***************************************************************************)
RECURSIVE ArgsDict(_)
\* traverse_argument_table_op: args[self.arg_token.name] = self.arg_token
ArgsDict(arg_ops) ==
    IF Len(arg_ops) = 0 THEN <<>>
    ELSE LET last == arg_ops[Len(arg_ops)]
         IN  DictPut(ArgsDict(SubSeq(arg_ops, 1, Len(arg_ops) - 1)), last.name, last)

CCPPArgumentTable(table_op) ==
    [name |-> table_op.name, type |-> table_op.type,
     function_arguments |-> ArgsDict(table_op.args)]

getFunctionArguments(arg_table) == DictValues(arg_table.function_arguments)

RECURSIVE ArgTablesDict(_)
\* traverse_table_properties_op: arg_tables[k] = v
ArgTablesDict(table_ops) ==
    IF Len(table_ops) = 0 THEN <<>>
    ELSE LET last == table_ops[Len(table_ops)]
         IN  DictPut(ArgTablesDict(SubSeq(table_ops, 1, Len(table_ops) - 1)),
                     last.name, CCPPArgumentTable(last))

CCPPTableProperties(properties_op) ==
    [name |-> properties_op.name, type |-> properties_op.type,
     arg_tables |-> ArgTablesDict(properties_op.tables)]

RECURSIVE BuildMetaDataDescriptions(_)
\* self.meta_data[ccpp_prop.getAttr("name")] = ccpp_prop
BuildMetaDataDescriptions(properties_ops) ==
    IF Len(properties_ops) = 0 THEN <<>>
    ELSE LET last == properties_ops[Len(properties_ops)]
         IN  DictPut(BuildMetaDataDescriptions(
                         SubSeq(properties_ops, 1, Len(properties_ops) - 1)),
                     last.name, CCPPTableProperties(last))

(***************************************************************************)
(* MetaCAP.generate_function_signature                                     *)
(***************************************************************************)
KnownIntents == {"in", "out", "inout"}

\* the argument goes to in_args: intent in, inout, or no intent
MetaIsInput(fn_arg) ==
    IF hasAttr(fn_arg, "intent") THEN fn_arg.intent \in {"in", "inout"} ELSE TRUE

\* mutant: an argument without intent is not an output
MetaIsOutputDeclared(fn_arg) ==
    hasAttr(fn_arg, "intent") /\ fn_arg.intent \in {"out", "inout"}

\* the argument goes to out_args: intent out, inout, or no intent
MetaIsOutput(fn_arg) ==
    IF hasAttr(fn_arg, "intent") THEN fn_arg.intent \in {"out", "inout"} ELSE TRUE

\* neither TypeConversions.convert nor the final else: assert False fails
SignatureOk(arg_table) ==
    \A i \in DOMAIN getFunctionArguments(arg_table) :
        LET fn_arg == getFunctionArguments(arg_table)[i]
        IN  /\ ConvertOk(fn_arg)
            /\ hasAttr(fn_arg, "intent") => fn_arg.intent \in KnownIntents

TypesOf(fn_args) == [i \in DOMAIN fn_args |-> convert(fn_args[i])]

\* func.FuncOp.external: a function without a body
FuncDecl(name, inputs, outputs) ==
    [kind |-> "func", name |-> name, inputs |-> inputs, outputs |-> outputs,
     body |-> <<>>]

generate_function_signature(arg_table) ==
    FuncDecl(arg_table.name,
             TypesOf(SelectSeq(getFunctionArguments(arg_table), MetaIsInput)),
             TypesOf(SelectSeq(getFunctionArguments(arg_table), MetaIsOutput)))

\* the tables of every TableProperties of the metadata model, in order
AllArgTables(meta_data) ==
    Flatten([i \in DOMAIN meta_data |-> DictValues(meta_data[i].v.arg_tables)])

(***************************************************************************)
(* The tree visitors of generate-suite-cap.                                *)
(***************************************************************************)
RECURSIVE GatherMetaFunctionSignatures(_)
\* traverse_func_op: meta_functions[func_op.sym_name.data] = func_op
GatherMetaFunctionSignatures(ops) ==
    IF Len(ops) = 0 THEN <<>>
    ELSE LET last == ops[Len(ops)]
             rest == GatherMetaFunctionSignatures(SubSeq(ops, 1, Len(ops) - 1))
         IN  IF last.kind = "func" /\ last.body = <<>>
             THEN DictPut(rest, last.name, last)
             ELSE rest

\* BuildSchemeDescription: schemes[suite_name] for the suites inside ccpp
BuildSchemeDescription(ops, suite_op) ==
    IF \E i \in DOMAIN ops : ops[i].kind = "suite" /\ ops[i].name = suite_op.name
    THEN <<[k |-> suite_op.name, v |-> suite_op]>>
    ELSE <<>>

\* the table_properties nodes that lie inside the ccpp module
PropsInside(ops, properties_ops) ==
    SelectSeq(properties_ops,
              LAMBDA p : \E i \in DOMAIN ops :
                             ops[i].kind = "table_properties" /\ ops[i].name = p.name)

(***************************************************************************)
(* GenerateSuiteSubroutine                                                 *)
(***************************************************************************)
\* an operation of a generated body
Op(op, name, k, operands, types, body) ==
    [op |-> op, name |-> name, k |-> k, operands |-> operands,
     types |-> types, body |-> body]

\* a use of result idx of the operation def; k is the scheme position
Ref(def, name, k, idx) == [def |-> def, name |-> name, k |-> k, idx |-> idx]

SlotRef(name) == Ref("alloca", name, 0, 1)

getSchemeNames(suite_description) == Flatten(suite_description.groups)

\* getArgumentTable: the assert and the lookup in arg_tables both succeed
ArgumentTableOk(meta_data, scheme_name, subroutine_name) ==
    /\ DictHas(meta_data, scheme_name)
    /\ DictHas(DictGet(meta_data, scheme_name).arg_tables, subroutine_name)

getArgumentTable(meta_data, scheme_name, subroutine_name) ==
    DictGet(DictGet(meta_data, scheme_name).arg_tables, subroutine_name)

\* mutant: a later declaration is not compared with the first
SameTypeUnchecked(fn_arg, first) == TRUE

\* the assert on an argument name that is already registered
SameType(fn_arg, first) == fn_arg.type = first.type

RECURSIVE ArgsRequired(_)
\* first loop of generateVariableCreation over all arguments in visiting order
ArgsRequired(fn_args) ==
    IF Len(fn_args) = 0 THEN [ok |-> TRUE, d |-> <<>>]
    ELSE LET fn_arg == fn_args[Len(fn_args)]
             prev == ArgsRequired(SubSeq(fn_args, 1, Len(fn_args) - 1))
         IN  IF ~prev.ok THEN prev
             ELSE IF DictHas(prev.d, fn_arg.name)
                  THEN [ok |-> SameType(fn_arg, DictGet(prev.d, fn_arg.name)),
                        d |-> prev.d]
                  ELSE [ok |-> TRUE, d |-> Append(prev.d, [k |-> fn_arg.name, v |-> fn_arg])]

\* mutant: the schemes are visited last to first
VisitedArgsReversed(scheme_names, arg_tables) ==
    Flatten([i \in DOMAIN scheme_names |->
                getFunctionArguments(
                    DictGet(arg_tables, scheme_names[Len(scheme_names) + 1 - i]))])

\* the arguments of the schemes' tables in visiting order
VisitedArgs(scheme_names, arg_tables) ==
    Flatten([i \in DOMAIN scheme_names |->
                getFunctionArguments(DictGet(arg_tables, scheme_names[i]))])

\* second loop of generateVariableCreation: the shape and the base type exist
AllocOk(arg) ==
    /\ arg.type = "character" =>
          /\ hasAttr(arg, "kind")
          /\ Len(SplitEq(arg.kind)) >= 2
          /\ IntOk(SplitEq(arg.kind)[2])
    /\ BaseTypeOk(arg.type)

AllocaOp(arg) ==
    Op("alloca", arg.name, 0, <<>>,
       <<MemRefType(getBaseType(arg.type),
                    IF arg.type = "character"
                    THEN <<IntOf(SplitEq(arg.kind)[2])>>
                    ELSE <<>>)>>,
       <<>>)

generateVariableCreation(scheme_names, arg_tables) ==
    LET req == ArgsRequired(VisitedArgs(scheme_names, arg_tables))
    IN  IF ~req.ok THEN [ok |-> FALSE, err |-> "type mismatch", d |-> <<>>]
        ELSE IF \E i \in DOMAIN req.d : ~AllocOk(req.d[i].v)
             THEN [ok |-> FALSE, err |-> "allocation", d |-> <<>>]
             ELSE [ok |-> TRUE, err |-> "",
                   d |-> [i \in DOMAIN req.d |->
                             [k |-> req.d[i].k, v |-> AllocaOp(req.d[i].v)]]]

I32 == [memref |-> FALSE, elem |-> "i32", shape |-> <<>>]

I1 == [memref |-> FALSE, elem |-> "i1", shape |-> <<>>]

\* mutant: the constant is created but never stored into errflg
generateVariableInitialisationsNoStore(data_ops) ==
    <<Op("const", "", 0, <<>>, <<I32>>, <<>>)>>

generateVariableInitialisations(data_ops) ==
    <<Op("const", "", 0, <<>>, <<I32>>, <<>>),
      Op("store", "", 0, <<Ref("const", "", 0, 1), SlotRef("errflg")>>, <<>>, <<>>)>>

\* arg.getAttr("intent") asserts that the argument has an intent
IntentsOk(arg_table) ==
    \A i \in DOMAIN getFunctionArguments(arg_table) :
        hasAttr(getFunctionArguments(arg_table)[i], "intent")

\* the arguments whose slot becomes an operand of the call
IsCallOperand(arg) == arg.intent = "in" \/ arg.intent = "inout"

\* the arguments whose slot type becomes a result type of the call
IsCallResult(arg) == ~IsCallOperand(arg) /\ arg.intent = "out"

\* mutant: the guard tests for a non-zero errflg
GuardPredicateNe == "ne"

\* arith.CmpiOp(load_op, err_const_comp, 0): predicate 0 is eq
GuardPredicate == "eq"

RECURSIVE NestGuards(_)
NestGuards(guarded) ==
    IF Len(guarded) <= 1 THEN Flatten(guarded)
    ELSE LET g == Head(guarded)
             cond == g[Len(g)]
         IN  SubSeq(g, 1, Len(g) - 1)
                 \o <<[cond EXCEPT !.body = SubSeq(@, 1, Len(@) - 1)
                                                \o NestGuards(Tail(guarded))
                                                \o <<@[Len(@)]>>]>>

\* mutant: the operations guarding scheme k+1 go into the conditional of scheme k
PlaceGuardsNested(guarded) == NestGuards(guarded)

\* where the operations guarding scheme k are placed: one after the other in
\* call_ops, all of which become operations of the subroutine's block
PlaceGuards(guarded) == Flatten(guarded)

\* the order of the four operations returned for one scheme
GuardOps(err_const_comp, load_op, cmp, conditional_op) ==
    <<err_const_comp, cmp, load_op, conditional_op>>

generateSchemeSubroutineCallOps(subroutine_name, arg_table, data_ops, k) ==
    LET fn_args == getFunctionArguments(arg_table)
        ins == SelectSeq(fn_args, IsCallOperand)
        out_tracking == SelectSeq(fn_args, IsCallResult)
        in_ssa == [i \in DOMAIN ins |-> SlotRef(ins[i].name)]
        out_types == [i \in DOMAIN out_tracking |->
                         DictGet(data_ops, out_tracking[i].name).types[1]]
        call_op == Op("call", subroutine_name, k, in_ssa, out_types, <<>>)
        store_ops == [i \in DOMAIN out_tracking |->
                         Op("copy", "", k,
                            <<Ref("call", subroutine_name, k, i),
                              SlotRef(out_tracking[i].name)>>, <<>>, <<>>)]
        err_const_comp == Op("const", "", k, <<>>, <<I32>>, <<>>)
        load_op == Op("load", "", k, <<SlotRef("errflg")>>, <<I32>>, <<>>)
        cmp == Op("cmpi", GuardPredicate, k,
                  <<Ref("load", "", k, 1), Ref("const", "", k, 1)>>, <<I1>>, <<>>)
        conditional_op == Op("if", "", k, <<Ref("cmpi", GuardPredicate, k, 1)>>, <<>>,
                             <<call_op>> \o store_ops
                                 \o <<Op("yield", "", k, <<>>, <<>>, <<>>)>>)
    IN  GuardOps(err_const_comp, load_op, cmp, conditional_op)

\* mutant: the signature is collected at every invocation
AddSigAlways(fn_sigs, name, sig) == Append(fn_sigs, [k |-> name, v |-> sig])

\* if name not in fn_sigs: fn_sigs[name] = self.meta_fn_sigs[name]
AddSig(fn_sigs, name, sig) ==
    IF DictHas(fn_sigs, name) THEN fn_sigs ELSE Append(fn_sigs, [k |-> name, v |-> sig])

RECURSIVE FnSigs(_, _, _)
\* fn_sigs: the pool entries of the invoked names, first invocation first
FnSigs(scheme_names, tgt_subroutine_postfix, meta_fn_sigs) ==
    IF Len(scheme_names) = 0 THEN <<>>
    ELSE LET name == scheme_names[Len(scheme_names)] \o tgt_subroutine_postfix
             prev == FnSigs(SubSeq(scheme_names, 1, Len(scheme_names) - 1),
                            tgt_subroutine_postfix, meta_fn_sigs)
         IN  AddSig(prev, name, DictGet(meta_fn_sigs, name))

NoFunc == [kind |-> "func", name |-> "", inputs |-> <<>>, outputs |-> <<>>,
           body |-> <<>>]

\* mutant: errflg is initialised after the scheme calls
BodyOpsInitLast(slots, initialisation_ops, call_ops, return_op) ==
    slots \o call_ops \o initialisation_ops \o <<return_op>>

\* body_ops: the allocations, the initialisation, the guarded calls, the return
BodyOps(slots, initialisation_ops, call_ops, return_op) ==
    slots \o initialisation_ops \o call_ops \o <<return_op>>

Failure(err) == [ok |-> FALSE, err |-> err, fn |-> NoFunc, sigs |-> <<>>]

NotRun == Failure("not run")

generateSubroutineCall(suite_description, meta_data, meta_fn_sigs, tgt_subroutine_postfix, generated_subroutine_posfix) ==
    LET scheme_names == getSchemeNames(suite_description)
        tgt(i) == scheme_names[i] \o tgt_subroutine_postfix
    IN
    IF \E i \in DOMAIN scheme_names :
           ~ArgumentTableOk(meta_data, scheme_names[i], tgt(i))
    THEN Failure("argument table")
    ELSE
    LET arg_tables == [i \in DOMAIN scheme_names |->
                          [k |-> scheme_names[i],
                           v |-> getArgumentTable(meta_data, scheme_names[i], tgt(i))]]
        create_data_ops == generateVariableCreation(scheme_names, arg_tables)
    IN
    IF ~create_data_ops.ok THEN Failure(create_data_ops.err)
    ELSE IF ~DictHas(create_data_ops.d, "errflg") THEN Failure("errflg")
    ELSE
    LET data_ops == create_data_ops.d
        bad == {i \in DOMAIN scheme_names :
                   \/ ~DictHas(meta_fn_sigs, tgt(i))
                   \/ ~IntentsOk(DictGet(arg_tables, scheme_names[i]))}
    IN
    IF bad # {}
    THEN LET first == CHOOSE i \in bad : \A j \in bad : i <= j
         IN  IF ~DictHas(meta_fn_sigs, tgt(first))
             THEN Failure("signature") ELSE Failure("intent")
    ELSE
    LET call_ops == PlaceGuards(
                        [i \in DOMAIN scheme_names |->
                            generateSchemeSubroutineCallOps(
                                tgt(i), DictGet(arg_tables, scheme_names[i]),
                                data_ops, i)])
        slots == DictValues(data_ops)
        body_ops == BodyOps(slots, generateVariableInitialisations(data_ops), call_ops,
                            Op("return", "", 0,
                               [i \in DOMAIN slots |-> SlotRef(slots[i].name)],
                               <<>>, <<>>))
    IN  [ok |-> TRUE, err |-> "",
         fn |-> [kind |-> "func",
                 name |-> suite_description.name \o "_suite"
                              \o generated_subroutine_posfix,
                 inputs |-> <<>>,
                 outputs |-> [i \in DOMAIN slots |-> slots[i].types[1]],
                 body |-> body_ops],
         sigs |-> DictValues(FnSigs(scheme_names, tgt_subroutine_postfix,
                                    meta_fn_sigs))]

\* FuncOp.external for the signatures of both phases
clone_func_defs(init_fn_sigs, finalise_fn_sigs) ==
    LET func_defs == init_fn_sigs \o finalise_fn_sigs
    IN  [i \in DOMAIN func_defs |->
            FuncDecl(func_defs[i].name, func_defs[i].inputs, func_defs[i].outputs)]

(***************************************************************************)
(* The operation tree.  A node of the top-level module or of the ccpp      *)
(* module is [kind, name, inputs, outputs, body]; the content of the suite node  *)
(* and of the table_properties nodes is held by suite and props.           *)
(***************************************************************************)
Node(kind, name) ==
    [kind |-> kind, name |-> name, inputs |-> <<>>, outputs |-> <<>>, body |-> <<>>]

CcppModule == Node("module", "ccpp")

\* mutant: only the suite node is moved
IsCcppNodeSuiteOnly(n) == n.kind = "suite"

IsCcppNode(n) == n.kind = "suite" \/ n.kind = "table_properties"

\* SuiteCAP.find_ccpp_module
find_ccpp_module(ops) == \E i \in DOMAIN ops : ops[i] = CcppModule

NoCap == [name |-> "", ops |-> <<>>]

\* mutant: the cap module is appended to the top-level block
InsertAtEnd(ops, op) == Append(ops, op)

\* mutant: the cap module takes the place of the top-level operations
InsertReplacing(ops, op) == <<op>>

\* rewriter.insert_op(scheme_mod, InsertPoint.at_start(...))
InsertAtStart(ops, op) == <<op>> \o ops

(***************************************************************************)
(* generate-meta-cap                                                       *)
(***************************************************************************)
MetaCAPApply ==
    /\ stage = "parsed"
    /\ LET moved == SelectSeq(top, IsCcppNode)
           rest == SelectSeq(top, LAMBDA n : ~IsCcppNode(n))
           meta_data_descriptions ==
               BuildMetaDataDescriptions(PropsInside(moved, props))
           tables == AllArgTables(meta_data_descriptions)
       IN  IF \A i \in DOMAIN tables : SignatureOk(tables[i])
           THEN /\ ccpp' = moved \o [i \in DOMAIN tables |->
                                        generate_function_signature(tables[i])]
                /\ top' = Append(rest, CcppModule)
                /\ stage' = "meta"
           ELSE /\ ccpp' = <<>>
                /\ top' = rest
                /\ stage' = "failed"
    /\ UNCHANGED <<suite, props, init_fn, fin_fn, cap, running, pc, errflg, called>>
    /\ UNCHANGED <<emitterVars, scheme_files>>

(***************************************************************************)
(* generate-suite-cap: SuiteCAP.apply with match_and_rewrite on the suite  *)
(***************************************************************************)
SuiteCAPApply ==
    /\ stage \in {"parsed", "meta"}
    /\ IF ~find_ccpp_module(top)
       THEN /\ stage' = "failed"
            /\ UNCHANGED <<top, init_fn, fin_fn, cap>>
       ELSE LET meta_data == BuildMetaDataDescriptions(PropsInside(ccpp, props))
                meta_fn_sigs == GatherMetaFunctionSignatures(ccpp)
                suite_descriptions == BuildSchemeDescription(ccpp, suite)
                found == DictHas(suite_descriptions, suite.name)
                init == IF found
                        THEN generateSubroutineCall(
                                 DictGet(suite_descriptions, suite.name),
                                 meta_data, meta_fn_sigs, "_init", "_initialize")
                        ELSE Failure("suite")
                fin == IF init.ok
                       THEN generateSubroutineCall(
                                DictGet(suite_descriptions, suite.name),
                                meta_data, meta_fn_sigs, "_finalize", "_finalize")
                       ELSE NotRun
                scheme_mod == [name |-> suite.name \o "_cap",
                               ops |-> <<init.fn, fin.fn>>
                                          \o clone_func_defs(init.sigs, fin.sigs)]
            IN  /\ init_fn' = init
                /\ fin_fn' = fin
                /\ IF init.ok /\ fin.ok
                   THEN /\ cap' = scheme_mod
                        /\ top' = InsertAtStart(top, Node("module", scheme_mod.name))
                        /\ stage' = "cap"
                   ELSE /\ stage' = "failed"
                        /\ UNCHANGED <<top, cap>>
    /\ UNCHANGED <<suite, props, ccpp, running, pc, errflg, called>>
    /\ UNCHANGED <<emitterVars, scheme_files>>

(***************************************************************************)
(* Execution of a generated subroutine.  pc is the path of the next        *)
(* operation: an index into the body, followed by indices into the bodies  *)
(* of the conditionals entered.  A value is computed from the operation    *)
(* that defines it, as the emitter renders it at its use (print_expr).     *)
(***************************************************************************)
RECURSIVE BlockAt(_, _)
BlockAt(body, path) ==
    IF Len(path) <= 1 THEN body ELSE BlockAt(body[path[1]].body, Tail(path))

CurOp == BlockAt(running.body, pc)[pc[Len(pc)]]

AtOp(kinds) ==
    /\ stage = "exec"
    /\ pc[Len(pc)] \in DOMAIN BlockAt(running.body, pc)
    /\ CurOp.op \in kinds

Advance(path) == [path EXCEPT ![Len(path)] = @ + 1]

RECURSIVE AllOps(_)
AllOps(body) ==
    IF Len(body) = 0 THEN <<>>
    ELSE <<Head(body)>> \o AllOps(Head(body).body) \o AllOps(Tail(body))

DefOf(ref) ==
    LET ops == AllOps(running.body)
    IN  ops[CHOOSE i \in DOMAIN ops : ops[i].op = ref.def /\ ops[i].k = ref.k]

SlotValue(slot) == IF slot.name = "errflg" THEN errflg ELSE 0

RECURSIVE Eval(_)
Eval(ref) ==
    IF ref.def = "const" THEN 0
    ELSE IF ref.def = "load" THEN SlotValue(DefOf(ref).operands[1])
    ELSE IF ref.def = "cmpi"
         THEN IF (DefOf(ref).name = "eq")
                     = (Eval(DefOf(ref).operands[1]) = Eval(DefOf(ref).operands[2]))
              THEN 1 ELSE 0
    ELSE IF ref.def = "call"
         THEN called[CHOOSE i \in DOMAIN called : called[i].k = ref.k].ret
    ELSE 0

StartExec ==
    /\ stage = "cap"
    /\ \E f \in {init_fn.fn, fin_fn.fn} : running' = f
    /\ pc' = <<1>>
    /\ errflg' \in 0..MaxErr
    /\ called' = <<>>
    /\ stage' = "exec"
    /\ UNCHANGED <<suite, props, top, ccpp, init_fn, fin_fn, cap>>
    /\ UNCHANGED <<emitterVars, scheme_files>>

ExecValue ==
    /\ AtOp({"alloca", "const", "load", "cmpi"})
    /\ pc' = Advance(pc)
    /\ UNCHANGED <<stage, suite, props, top, ccpp, init_fn, fin_fn, cap,
                   running, errflg, called>>
    /\ UNCHANGED <<emitterVars, scheme_files>>

ExecStore ==
    /\ AtOp({"store", "copy"})
    /\ errflg' = IF CurOp.operands[2].name = "errflg"
                 THEN Eval(CurOp.operands[1]) ELSE errflg
    /\ pc' = Advance(pc)
    /\ UNCHANGED <<stage, suite, props, top, ccpp, init_fn, fin_fn, cap,
                   running, called>>
    /\ UNCHANGED <<emitterVars, scheme_files>>

ExecIf ==
    /\ AtOp({"if"})
    /\ pc' = IF Eval(CurOp.operands[1]) = 1 THEN Append(pc, 1) ELSE Advance(pc)
    /\ UNCHANGED <<stage, suite, props, top, ccpp, init_fn, fin_fn, cap,
                   running, errflg, called>>
    /\ UNCHANGED <<emitterVars, scheme_files>>

ExecCall ==
    /\ AtOp({"call"})
    /\ \E ret \in 0..MaxErr :
           /\ Len(CurOp.types) = 0 => ret = 0
           /\ called' = Append(called, [name |-> CurOp.name, k |-> CurOp.k,
                                        ret |-> ret])
    /\ IF \E i \in DOMAIN CurOp.operands : CurOp.operands[i].name = "errflg"
       THEN errflg' \in 0..MaxErr
       ELSE errflg' = errflg
    /\ pc' = Advance(pc)
    /\ UNCHANGED <<stage, suite, props, top, ccpp, init_fn, fin_fn, cap, running>>
    /\ UNCHANGED <<emitterVars, scheme_files>>

ExecYield ==
    /\ AtOp({"yield"})
    /\ pc' = Advance(SubSeq(pc, 1, Len(pc) - 1))
    /\ UNCHANGED <<stage, suite, props, top, ccpp, init_fn, fin_fn, cap,
                   running, errflg, called>>
    /\ UNCHANGED <<emitterVars, scheme_files>>

ExecReturn ==
    /\ AtOp({"return"})
    /\ stage' = "done"
    /\ UNCHANGED <<suite, props, top, ccpp, init_fn, fin_fn, cap,
                   running, pc, errflg, called>>
    /\ UNCHANGED <<emitterVars, scheme_files>>

(***************************************************************************)
(* The backend: the naming contexts of ftnPrintContext.  A context holds a *)
(* reference to its dictionary variables (a cell of heap) and its counter; *)
(* at_descent records the bindings of the parent when it was created,      *)
(* returned the last request made since the contexts last changed, and     *)
(* dropped the bindings lost with the context that returned last.          *)
(***************************************************************************)
pipelineVars == <<stage, suite, props, top, ccpp, init_fn, fin_fn, cap,
                  running, pc, errflg, called>>

MaxDepth == 2       \* contexts alive at once: the root and the descended ones

Values == {"p", "q"}

\* the hints that a request may pass
Hints == {"x", "v0", "arg_0"}

\* the name hints that a value may carry; "" is None
NameHints == {"", "x"}

RECURSIVE Str(_)
\* str(n)
Str(n) == IF n < 10 THEN Digits[n + 1] ELSE Str(n \div 10) \o Digits[(n % 10) + 1]

RECURSIVE NextFree(_, _, _)
\* the counter value whose name leaves the while loop
NextFree(prefix, counter, taken) ==
    IF (prefix \o Str(counter)) \in taken
    THEN NextFree(prefix, counter + 1, taken)
    ELSE counter

get_variable_name_for(variables, counter, val, hint, name_hint) ==
    IF DictHas(variables, val)
    THEN [name |-> DictGet(variables, val), variables |-> variables, counter |-> counter]
    ELSE LET taken_names == Range(DictValues(variables))
             h == IF hint = "" THEN name_hint ELSE hint
         IN  IF h # "" /\ h \notin taken_names
             THEN [name |-> h, variables |-> DictPut(variables, val, h),
                   counter |-> counter]
             ELSE LET prefix == IF name_hint = "" THEN "v" ELSE name_hint
                      c == NextFree(prefix, counter, taken_names)
                  IN  [name |-> prefix \o Str(c),
                       variables |-> DictPut(variables, val, prefix \o Str(c)),
                       counter |-> c + 1]

\* mutant: the descended context shares the dictionary of its parent
descendShared(ctx, hp) ==
    [heap |-> hp,
     ctx |-> [variables |-> ctx.variables, counter |-> ctx.counter,
              at_descent |-> hp[ctx.variables]]]

\* descend: ftnPrintContext(variables=self.variables.copy(), _counter=self._counter)
descend(ctx, hp) ==
    [heap |-> Append(hp, hp[ctx.variables]),
     ctx |-> [variables |-> Len(hp) + 1, counter |-> ctx.counter,
              at_descent |-> hp[ctx.variables]]]

Top == stack[Len(stack)]

\* the dictionary variables of a context
Bindings(ctx) == heap[ctx.variables]

NoRequest == [val |-> "", asked |-> "", name |-> "", fresh |-> FALSE]

NoOutput == [ok |-> FALSE, stmts |-> <<>>]

\* no emitter context exists
EmitterIdle ==
    /\ hints = [v \in Values |-> ""]
    /\ rets = <<>>
    /\ heap = <<>>
    /\ stack = <<>>
    /\ dropped = {}
    /\ returned = NoRequest
    /\ output = NoOutput

\* a call of _get_variable_name_for on the current context
GetVariableName ==
    /\ stage = "names"
    /\ \E val \in Values, hint \in {""} \cup Hints :
           LET r == get_variable_name_for(Bindings(Top), Top.counter, val, hint,
                                          hints[val])
           IN  /\ heap' = [heap EXCEPT ![Top.variables] = r.variables]
               /\ stack' = [stack EXCEPT ![Len(stack)].counter = r.counter]
               /\ returned' = [val |-> val,
                               asked |-> IF hint = "" THEN hints[val] ELSE hint,
                               name |-> r.name,
                               fresh |-> ~DictHas(Bindings(Top), val)]
    /\ UNCHANGED <<hints, rets, dropped, output>>
    /\ UNCHANGED <<pipelineVars, scheme_files>>

\* print_op on the memref.alloca that defines a returned value:
\* self.variables[arr]="arg_"+str(arg_idx)
PrintAlloca ==
    /\ stage = "names"
    /\ \E idx \in DOMAIN rets :
           /\ ~DictHas(Bindings(Top), rets[idx])
           /\ \A j \in 1..(idx - 1) : rets[j] # rets[idx]
           /\ heap' = [heap EXCEPT ![Top.variables] =
                           DictPut(@, rets[idx], "arg_" \o Str(idx - 1))]
    /\ returned' = NoRequest
    /\ UNCHANGED <<hints, rets, stack, dropped, output>>
    /\ UNCHANGED <<pipelineVars, scheme_files>>

\* entering a with self.descend() block
Descend ==
    /\ stage = "names"
    /\ Len(stack) < MaxDepth
    /\ heap' = descend(Top, heap).heap
    /\ stack' = Append(stack, descend(Top, heap).ctx)
    /\ dropped' = {}
    /\ returned' = NoRequest
    /\ UNCHANGED <<hints, rets, output>>
    /\ UNCHANGED <<pipelineVars, scheme_files>>

\* leaving the with block: the descended context is discarded; dropped holds
\* the bindings that only it had
Return ==
    /\ stage = "names"
    /\ Len(stack) > 1
    /\ LET parent == stack[Len(stack) - 1]
       IN  /\ stack' = SubSeq(stack, 1, Len(stack) - 1)
           /\ heap' = IF Top.variables # parent.variables
                       THEN SubSeq(heap, 1, Len(heap) - 1) ELSE heap
           /\ dropped' =
                  {b \in Range(Bindings(Top)) : b \notin Range(Top.at_descent)}
    /\ returned' = NoRequest
    /\ UNCHANGED <<hints, rets, output>>
    /\ UNCHANGED <<pipelineVars, scheme_files>>

\* the operands of the return: the generated subroutines return no value or
\* one slot
RetLists == {<<>>} \cup {<<v>> : v \in Values}

\* print_to_ftn creates the root context; the values carry any name hints
InitNames ==
    /\ stage = "names"
    /\ suite = [name |-> "S", groups |-> <<>>]
    /\ props = <<>>
    /\ top = <<>>
    /\ ccpp = <<>>
    /\ init_fn = NotRun
    /\ fin_fn = NotRun
    /\ cap = NoCap
    /\ running = NoFunc
    /\ pc = <<>>
    /\ errflg = 0
    /\ called = <<>>
    /\ hints \in [Values -> NameHints]
    /\ rets \in RetLists
    /\ heap = <<<<>>>>
    /\ stack = <<[variables |-> 1, counter |-> 0, at_descent |-> <<>>]>>
    /\ dropped = {}
    /\ returned = NoRequest
    /\ output = NoOutput
    /\ scheme_files = <<>>

NextNames ==
    \/ GetVariableName
    \/ PrintAlloca
    \/ Descend
    \/ Return

SpecNames == InitNames /\ [][NextNames]_vars

(***************************************************************************)
(* The backend: print_to_ftn.  A printing state P holds the naming         *)
(* contexts (heap and stack as above), the lines printed so far and ok,    *)
(* which is FALSE once an assert has failed; the line being printed when   *)
(* the assert fails is not recorded.  A line records its text, the kind    *)
(* and scheme position of the operation that print_op was handling ("" for *)
(* the lines of print_to_ftn and _print_fn) and the number of indents.     *)
(***************************************************************************)
\* the value of a set of one value: a result that is computed once
The(S) == CHOOSE x \in S : TRUE

Line(text, op, k, depth) == [text |-> text, op |-> op, k |-> k, depth |-> depth]

\* self.print of one full line by the current context, on behalf of op
PrintLine(P, text, op) ==
    [P EXCEPT !.out = Append(@, Line(text, op.op, op.k, Len(P.stack) - 1))]

NoOp == Op("", "", 0, <<>>, <<>>, <<>>)

\* with self.descend() as inner
Enter(P) ==
    LET d == descend(P.stack[Len(P.stack)], P.heap)
    IN  [P EXCEPT !.heap = d.heap, !.stack = Append(@, d.ctx)]

\* the end of the with block
Leave(P) ==
    LET n == Len(P.stack)
    IN  [P EXCEPT !.stack = SubSeq(@, 1, n - 1),
                  !.heap = IF P.stack[n].variables # P.stack[n - 1].variables
                           THEN SubSeq(@, 1, Len(@) - 1) ELSE @]

\* self._get_variable_name_for(val) in the current context of P
NameFor(P, val) ==
    LET ctx == P.stack[Len(P.stack)]
        r == get_variable_name_for(P.heap[ctx.variables], ctx.counter, val, "", "")
    IN  [P |-> [P EXCEPT !.heap[ctx.variables] = r.variables,
                         !.stack[Len(P.stack)].counter = r.counter],
         name |-> r.name]

RECURSIVE Join(_, _)
\* sep.join(texts)
Join(texts, sep) ==
    IF Len(texts) = 0 THEN ""
    ELSE IF Len(texts) = 1 THEN texts[1]
    ELSE texts[1] \o sep \o Join(Tail(texts), sep)

\* the scalar types that mlir_type_to_ftn_type knows
FTN_TYPE == <<[k |-> "f32", v |-> "real(kind=4)"],
              [k |-> "f64", v |-> "real(kind=8)"],
              [k |-> "i1", v |-> "logical"],
              [k |-> "i8", v |-> "character"],
              [k |-> "i32", v |-> "integer"]>>

mlir_type_to_ftn_type(type_attr) ==
    LET type == DictGet(FTN_TYPE, type_attr.elem)
        shape == Join([i \in DOMAIN type_attr.shape |-> Str(type_attr.shape[i])], ", ")
    IN  IF ~type_attr.memref THEN type
        ELSE IF type = "character" THEN type \o "(len=" \o shape \o ")"
        ELSE type \o "(" \o shape \o ")"

\* attribute_value_to_str of an IntegerAttr
attribute_value_to_str(val, type) ==
    IF type.elem = "i1" THEN (IF val # 0 THEN "true" ELSE "false") ELSE Str(val)

\* _cmp_ops[arith.cmpi]
cmp_ops == <<[k |-> "eq", v |-> ".eq."], [k |-> "ne", v |-> ".ne."]>>

\* mutant: the result is given a variable, and the variable is printed
print_or_promote_to_variable(var, value_expr) == "v" \o Str(var.k)

\* _print_or_promote_to_inline_expr: the promotion is commented out, the
\* expression is printed where it is used
print_or_promote_to_inline_expr(var, value_expr) == value_expr

\* the operation that owns a used value
OwnerOf(ref, ops) ==
    ops[CHOOSE i \in DOMAIN ops :
            /\ ops[i].op = ref.def
            /\ ops[i].k = ref.k
            /\ ref.def = "alloca" => ops[i].name = ref.name]

RECURSIVE print_expr(_, _, _)
\* print_expr: the text printed for op, or the assert of the default case
print_expr(P, op, ops) ==
    IF op.op = "const"
    THEN [P |-> P, ok |-> TRUE,
          text |-> print_or_promote_to_inline_expr(
                       op, attribute_value_to_str(0, op.types[1]))]
    ELSE IF op.op = "load"
    THEN LET n == NameFor(P, op.operands[1].name)
         IN  [P |-> n.P, ok |-> TRUE, text |-> n.name]
    ELSE IF op.op = "cmpi"
    THEN LET l == print_expr(P, OwnerOf(op.operands[1], ops), ops)
         IN  IF ~l.ok THEN l
             ELSE LET r == print_expr(l.P, OwnerOf(op.operands[2], ops), ops)
                  IN  [P |-> r.P, ok |-> r.ok,
                       text |-> l.text \o " " \o DictGet(cmp_ops, op.name)
                                    \o " " \o r.text]
    ELSE [P |-> P, ok |-> FALSE, text |-> ""]

RECURSIVE PrintArgs(_, _, _)
\* the loop of _print_call over the operands
PrintArgs(P, args, ops) ==
    IF Len(args) = 0 THEN [P |-> P, ok |-> TRUE, texts |-> <<>>]
    ELSE LET prev == PrintArgs(P, SubSeq(args, 1, Len(args) - 1), ops)
         IN  IF ~prev.ok THEN prev
             ELSE LET e == print_expr(prev.P, OwnerOf(args[Len(args)], ops), ops)
                  IN  [P |-> e.P, ok |-> e.ok, texts |-> Append(prev.texts, e.text)]

\* the destination of the memref.copy that uses result idx of the call
CopyDestination(call, idx, ops) ==
    ops[CHOOSE i \in DOMAIN ops :
            /\ ops[i].op = "copy"
            /\ ops[i].operands[1] = Ref("call", call.name, call.k, idx)].operands[2].name

RECURSIVE PrintResults(_, _, _, _)
\* the loop of _print_call over the results: get_call_result_var_ssa
PrintResults(P, call, n, ops) ==
    IF n = 0 THEN [P |-> P, texts |-> <<>>]
    ELSE LET prev == PrintResults(P, call, n - 1, ops)
             r == NameFor(prev.P, CopyDestination(call, n, ops))
         IN  [P |-> r.P, texts |-> Append(prev.texts, r.name)]

print_call(P, op, ops) ==
    LET a == PrintArgs(P, op.operands, ops)
        r == PrintResults(a.P, op, Len(op.types), ops)
    IN  IF ~a.ok THEN [a.P EXCEPT !.ok = FALSE]
        ELSE PrintLine(r.P, "call " \o op.name \o "("
                                \o Join(a.texts \o r.texts, ", ") \o ")", op)

\* find_ret_ssa_idx
find_ret_ssa_idx(ret_op, name) ==
    (CHOOSE i \in DOMAIN ret_op.operands :
         /\ ret_op.operands[i].name = name
         /\ \A j \in 1..(i - 1) : ret_op.operands[j].name # name) - 1

RECURSIVE print_block(_, _, _, _)
RECURSIVE print_op(_, _, _, _)
\* print_op; first_use_ret holds the slots whose first listed use is the
\* func.return
print_op(P, op, ops, first_use_ret) ==
    IF op.op = "alloca"
    THEN IF op.name \in first_use_ret
         THEN LET possible_ret == ops[Len(ops)]
                  ctx == P.stack[Len(P.stack)]
              IN  [P EXCEPT !.heap[ctx.variables] =
                       DictPut(@, op.name,
                               "arg_" \o Str(find_ret_ssa_idx(possible_ret, op.name)))]
         ELSE P
    ELSE IF op.op = "call" THEN print_call(P, op, ops)
    ELSE IF op.op = "if"
    THEN LET c == print_expr(P, OwnerOf(op.operands[1], ops), ops)
         IN  IF ~c.ok THEN [c.P EXCEPT !.ok = FALSE]
             ELSE LET head == PrintLine(c.P, "if (" \o c.text \o ") then", op)
                      inner == print_block(Enter(head), op.body, ops, first_use_ret)
                  IN  IF ~inner.ok THEN inner
                      ELSE PrintLine(Leave(inner), "end if", op)
    ELSE IF op.op = "store"
    THEN LET arr == NameFor(P, op.operands[2].name)
             e == print_expr(arr.P, OwnerOf(op.operands[1], ops), ops)
         IN  IF ~e.ok THEN [e.P EXCEPT !.ok = FALSE]
             ELSE PrintLine(e.P, arr.name \o " = " \o e.text, op)
    ELSE P

\* print_block: every operation of the block in order, up to a failed assert
print_block(P, body, ops, first_use_ret) ==
    IF Len(body) = 0 THEN P
    ELSE The({IF ~prev.ok THEN prev
              ELSE print_op(prev, body[Len(body)], ops, first_use_ret) :
                  prev \in {print_block(P, SubSeq(body, 1, Len(body) - 1), ops,
                                        first_use_ret)}})

RECURSIVE PrintLines(_, _)
PrintLines(P, texts) ==
    IF Len(texts) = 0 THEN P
    ELSE PrintLine(PrintLines(P, SubSeq(texts, 1, Len(texts) - 1)),
                   texts[Len(texts)], NoOp)

\* _print_fn
print_fn(P, fn, first_use_ret) ==
    LET n_in == Len(fn.inputs)
        args == Join([i \in 1..(n_in + Len(fn.outputs)) |-> "arg_" \o Str(i - 1)], ", ")
        start == PrintLines(P, <<"", "subroutine " \o fn.name \o "(" \o args \o ") ">>)
        decls == [i \in DOMAIN fn.inputs |->
                     mlir_type_to_ftn_type(fn.inputs[i]) \o ", intent(in) :: arg_"
                         \o Str(i - 1)]
                 \o [i \in DOMAIN fn.outputs |->
                        mlir_type_to_ftn_type(fn.outputs[i]) \o ", intent(out) :: arg_"
                            \o Str(n_in + i - 1)]
        inner == print_block(PrintLines(Enter(start), decls \o <<"">>), fn.body,
                             AllOps(fn.body), first_use_ret)
    IN  IF ~inner.ok THEN inner
        ELSE PrintLines(Leave(inner), <<"end subroutine " \o fn.name \o " ">>)

RECURSIVE PrintFuncs(_, _, _)
\* print_block on the block of a module: only the functions with a body print
PrintFuncs(P, ops, first_use_ret) ==
    IF Len(ops) = 0 THEN P
    ELSE LET op == ops[Len(ops)]
         IN  The({IF ~prev.ok \/ op.kind # "func" \/ op.body = <<>> THEN prev
                  ELSE print_fn(prev, op, first_use_ret) :
                      prev \in {PrintFuncs(P, SubSeq(ops, 1, Len(ops) - 1),
                                           first_use_ret)}})

\* the operations of a module of the top-level block
ModuleOps(m) == IF m = CcppModule THEN ccpp ELSE cap.ops

RECURSIVE PrintModules(_, _, _)
\* the loop of print_to_ftn over get_modules_in_module_op(prog)
PrintModules(P, modules, first_use_ret) ==
    IF Len(modules) = 0 THEN P
    ELSE LET module == modules[Len(modules)]
             divider == IF Len(modules) > 1 THEN <<"// -----">> ELSE <<>>
         IN  The({IF ~prev.ok THEN prev
                  ELSE PrintFuncs(PrintLines(prev, divider
                                                 \o <<"// FILE: " \o module.name>>),
                                  ModuleOps(module), first_use_ret) :
                      prev \in {PrintModules(P, SubSeq(modules, 1, Len(modules) - 1),
                                             first_use_ret)}})

print_to_ftn(prog, first_use_ret) ==
    PrintModules([heap |-> <<<<>>>>,
                  stack |-> <<[variables |-> 1, counter |-> 0, at_descent |-> <<>>]>>,
                  out |-> <<>>, ok |-> TRUE],
                 SelectSeq(prog, LAMBDA n : n.kind = "module"), first_use_ret)

\* the names of the slots of the generated subroutines
SlotNames ==
    {o.name : o \in {o \in Range(AllOps(Flatten([i \in DOMAIN cap.ops |-> cap.ops[i].body]))) :
                        o.op = "alloca"}}

\* the target ftn of ccpp-opt, after the passes
PrintToFtn ==
    /\ stage \in {"parsed", "meta", "cap"}
    /\ \E first_use_ret \in SUBSET SlotNames :
           output' = The({[ok |-> P.ok, stmts |-> P.out] :
                              P \in {print_to_ftn(top, first_use_ret)}})
    /\ stage' = "printed"
    /\ UNCHANGED <<suite, props, top, ccpp, init_fn, fin_fn, cap, running, pc,
                   errflg, called>>
    /\ UNCHANGED <<hints, rets, heap, stack, dropped, returned, scheme_files>>

(***************************************************************************)
(* The inputs: a suite over the schemes A and B and a metadata file per    *)
(* scheme with an _init and a _finalize argument table.                    *)
(***************************************************************************)
Arg(name, type, intent) ==
    [name |-> name, keys |-> {"type", "intent"}, type |-> type,
     kind |-> <<>>, intent |-> intent]

ArgNoIntent(name, type) ==
    [name |-> name, keys |-> {"type"}, type |-> type, kind |-> <<>>, intent |-> ""]

ArgKind(name, type, kind, intent) ==
    [name |-> name, keys |-> {"type", "kind", "intent"}, type |-> type,
     kind |-> kind, intent |-> intent]

Len4 == <<"l", "e", "n", "=", "4">>

InitTables ==
    { <<Arg("x", "real", "in"), Arg("errflg", "integer", "out")>>,
      <<Arg("x", "real", "in"), Arg("errflg", "integer", "out"),
        Arg("y", "real", "out")>>,
      <<Arg("errflg", "integer", "out")>>,
      <<Arg("errflg", "integer", "inout"), Arg("x", "real", "inout")>>,
      <<Arg("x", "integer", "in"), Arg("errflg", "integer", "out")>>,
      <<Arg("y", "real", "out"), Arg("errflg", "integer", "out"),
        Arg("x", "real", "in")>>,
      <<ArgNoIntent("x", "real"), Arg("errflg", "integer", "out")>>,
      <<Arg("x", "real", "out")>>,
      <<Arg("errflg", "integer", "in"), Arg("x", "real", "out")>>,
      <<Arg("x", "real", "value"), Arg("errflg", "integer", "out")>>,
      <<Arg("errflg", "integer", "out"), ArgKind("y", "character", Len4, "out")>>,
      <<Arg("y", "integer", "inout"), Arg("errflg", "integer", "out"),
        Arg("x", "real", "inout")>> }

FinTables ==
    { <<Arg("errflg", "integer", "out")>>,
      <<Arg("x", "real", "inout"), Arg("errflg", "integer", "inout")>>,
      <<Arg("errflg", "integer", "out"), Arg("x", "integer", "in")>> }

Optional(S) == {<<>>} \cup {<<e>> : e \in S}

ArgTableOp(name, args) == [name |-> name, type |-> "scheme", args |-> args]

PlainTables ==
    { <<Arg("x", "real", "in"), Arg("errflg", "integer", "out")>>,
      <<Arg("errflg", "integer", "out")>> }

File(scheme, it, ft) ==
    [name |-> scheme, type |-> "scheme",
     tables |-> [i \in DOMAIN it |-> ArgTableOp(scheme \o "_init", it[i])]
                    \o [i \in DOMAIN ft |-> ArgTableOp(scheme \o "_finalize", ft[i])]]

\* the table_properties node of the metadata file of one scheme: any _init
\* table with the plain _finalize table, or a plain _init table with any
\* _finalize table
Files(scheme) ==
    { File(scheme, it, <<<<Arg("errflg", "integer", "out")>>>>) :
          it \in Optional(InitTables) }
    \cup { File(scheme, <<it>>, ft) : it \in PlainTables, ft \in Optional(FinTables) }

\* the files of the trees that hold a ccpp module from the start
PlainFiles(scheme) ==
    { File(scheme, <<it>>, <<ft>>) : it \in PlainTables, ft \in FinTables }

PlainFile(scheme) ==
    File(scheme, <<<<Arg("errflg", "integer", "out")>>>>,
         <<<<Arg("errflg", "integer", "out")>>>>)

SchemeNames == {"A", "B"}

\* the scheme references of a suite, flattened
SchemeLists == UNION {[1..n -> SchemeNames] : n \in 1..MaxSchemes}

\* all schemes in one group, or one group per scheme
Groupings(names) == {<<names>>, [i \in DOMAIN names |-> <<names[i]>>]}

Suites == {[name |-> "S", groups |-> g] : g \in UNION {Groupings(l) : l \in SchemeLists}}

\* the trees that no pass has run on, and trees read from a file in which
\* the ccpp module lacks one declaration or does not hold the suite
InitTree ==
    \/ /\ stage = "parsed"
       /\ top = <<Node("suite", suite.name)>>
                    \o [i \in DOMAIN props |-> Node("table_properties", props[i].name)]
       /\ ccpp = <<>>
    \/ /\ stage = "meta"
       /\ LET tables == AllArgTables(BuildMetaDataDescriptions(props))
              decls == [i \in DOMAIN tables |-> generate_function_signature(tables[i])]
              nodes == [i \in DOMAIN props |-> Node("table_properties", props[i].name)]
          IN  /\ \A i \in DOMAIN props : props[i] \in PlainFiles(props[i].name)
              /\ \/ /\ top = <<Node("suite", suite.name), CcppModule>>
                    /\ ccpp = nodes \o decls
                 \/ /\ top = <<CcppModule>>
                    /\ \E d \in DOMAIN decls :
                           ccpp = <<Node("suite", suite.name)>> \o nodes
                                      \o SubSeq(decls, 1, d - 1)
                                      \o SubSeq(decls, d + 1, Len(decls))

\* nothing has been generated, executed or printed
InitRest ==
    /\ EmitterIdle
    /\ init_fn = NotRun
    /\ fin_fn = NotRun
    /\ cap = NoCap
    /\ running = NoFunc
    /\ pc = <<>>
    /\ errflg = 0
    /\ called = <<>>

\* the file of scheme A; scheme B may have no file
FilesA == Files("A")

FilesB == Optional(Files("B"))

\* a scheme that the suite does not reference has the plain file
Init ==
    /\ suite \in Suites
    /\ \E a \in FilesA, b \in FilesB :
           /\ "A" \notin Range(getSchemeNames(suite)) => a = PlainFile("A")
           /\ "B" \notin Range(getSchemeNames(suite)) => b = <<PlainFile("B")>>
           /\ props = <<a>> \o b
    /\ InitTree
    /\ InitRest
    /\ scheme_files = <<>>

\* the pass pipeline
Next ==
    \/ MetaCAPApply
    \/ SuiteCAPApply

Spec == Init /\ [][Next]_vars

(***************************************************************************)
(* The pass pipeline followed by an execution of a generated subroutine,   *)
(* on trees that no pass has run on and whose tables all give an intent.   *)
(***************************************************************************)
ExecTables ==
    { <<Arg("x", "real", "in"), Arg("errflg", "integer", "out")>>,
      <<Arg("x", "real", "in"), Arg("errflg", "integer", "out"),
        Arg("y", "real", "out")>>,
      <<Arg("errflg", "integer", "out")>>,
      <<Arg("errflg", "integer", "inout"), Arg("x", "real", "inout")>>,
      <<Arg("errflg", "integer", "in"), Arg("x", "real", "out")>> }

ExecFiles(scheme) ==
    { File(scheme, <<it>>, <<<<Arg("errflg", "integer", "out")>>>>) :
          it \in ExecTables }

ExecFilesA == ExecFiles("A")

ExecFilesB == ExecFiles("B")

InitExec ==
    /\ suite \in Suites
    /\ \E a \in ExecFilesA, b \in ExecFilesB :
           /\ "A" \notin Range(getSchemeNames(suite)) => a = PlainFile("A")
           /\ "B" \notin Range(getSchemeNames(suite)) => b = PlainFile("B")
           /\ props = <<a, b>>
    /\ stage = "parsed"
    /\ top = <<Node("suite", suite.name)>>
                 \o [i \in DOMAIN props |-> Node("table_properties", props[i].name)]
    /\ ccpp = <<>>
    /\ InitRest
    /\ scheme_files = <<>>

NextExec ==
    \/ MetaCAPApply
    \/ SuiteCAPApply
    \/ StartExec
    \/ ExecValue
    \/ ExecStore
    \/ ExecIf
    \/ ExecCall
    \/ ExecYield
    \/ ExecReturn

SpecExec == InitExec /\ [][NextExec]_vars

(***************************************************************************)
(* The pass pipeline followed by the printing of the tree.                 *)
(***************************************************************************)
NextEmit ==
    \/ MetaCAPApply
    \/ SuiteCAPApply
    \/ PrintToFtn

SpecEmit == InitExec /\ [][NextEmit]_vars

(***************************************************************************)
(* The pass pipeline on metadata units with character arguments of several *)
(* kinds and on units that hold two _init tables.                          *)
(***************************************************************************)
Len8 == <<"l", "e", "n", "=", "8">>

LenStar == <<"l", "e", "n", "=", "*">>

KindAbc == <<"a", "b", "c">>

KindTables ==
    { <<Arg("errflg", "integer", "out"), ArgKind("y", "character", Len4, "out")>>,
      <<Arg("errflg", "integer", "out"), ArgKind("y", "character", Len8, "out")>>,
      <<Arg("errflg", "integer", "out"), Arg("y", "character", "out")>>,
      <<Arg("errflg", "integer", "out"), ArgKind("y", "character", KindAbc, "out")>>,
      <<Arg("errflg", "integer", "out"), ArgKind("y", "character", LenStar, "out")>>,
      <<Arg("x", "real", "in"), Arg("errflg", "integer", "out")>> }

DupTables ==
    { <<Arg("errflg", "integer", "out"), ArgKind("y", "character", Len4, "out")>>,
      <<Arg("errflg", "integer", "out")>>,
      <<Arg("x", "real", "in"), Arg("errflg", "integer", "out")>> }

\* one _init table, or two _init tables of the same name
UnitFiles(scheme) ==
    { File(scheme, <<it>>, <<<<Arg("errflg", "integer", "out")>>>>) : it \in KindTables }
    \cup { File(scheme, <<it1, it2>>, <<<<Arg("errflg", "integer", "out")>>>>) :
               it1 \in DupTables, it2 \in DupTables }

UnitFilesA == UnitFiles("A")

UnitFilesB == UnitFiles("B")

InitUnits ==
    /\ suite \in Suites
    /\ \E a \in UnitFilesA, b \in UnitFilesB :
           /\ "A" \notin Range(getSchemeNames(suite)) => a = PlainFile("A")
           /\ "B" \notin Range(getSchemeNames(suite)) => b = PlainFile("B")
           /\ props = <<a, b>>
    /\ stage = "parsed"
    /\ top = <<Node("suite", suite.name)>>
                 \o [i \in DOMAIN props |-> Node("table_properties", props[i].name)]
    /\ ccpp = <<>>
    /\ InitRest
    /\ scheme_files = <<>>

SpecUnits == InitUnits /\ [][Next]_vars

(***************************************************************************)
(* The frontend (frontend/ccpp_xml.py).  A line of a metadata file is a    *)
(* sequence of pieces of text; a space, a line end, a bracket and an = are *)
(* always pieces of their own, so that what str.strip, str.split and       *)
(* str.translate do to the line can be followed.  An attribute value is    *)
(* kept as its pieces.                                                     *)
(***************************************************************************)
Whitespace == {" ", "\n"}

RECURSIVE lstrip(_)
lstrip(s) == IF Len(s) > 0 /\ Head(s) \in Whitespace THEN lstrip(Tail(s)) ELSE s

RECURSIVE rstrip(_)
rstrip(s) ==
    IF Len(s) > 0 /\ s[Len(s)] \in Whitespace
    THEN rstrip(SubSeq(s, 1, Len(s) - 1))
    ELSE s

\* str.strip()
strip(s) == rstrip(lstrip(s))

\* c in s, for a single character c
Contains(s, c) == \E i \in DOMAIN s : s[i] = c

\* sline.translate(str.maketrans('', '', "[]"))
translate(s) == SelectSeq(s, LAMBDA c : c \notin {"[", "]"})

RECURSIVE Text(_)
\* the string that the pieces spell
Text(s) == IF Len(s) = 0 THEN "" ELSE Head(s) \o Text(Tail(s))

\* CCPPType(value) and TableTypeKind(value) raise on any other text
TableTypes == {"scheme", "module", "ddt"}

TablePropertiesKeys == {"name", "type", "dependencies", "relative_path"}

ArgumentTableKeys == {"name", "type"}

\* CCPPItem.getAttr asserts that the key is set
getAttrOk(item, key) == DictHas(item.attrs, key)

getAttr(item, key) == DictGet(item.attrs, key)

\* CCPPItem.setAttr: self.attrs[key]=value
setAttr(item, key, value) == [item EXCEPT !.attrs = DictPut(@, key, value)]

\* CCPPTableProperties(), CCPPArgumentTable() and CCPPArgument(name)
NewItem(name) == [name |-> name, attrs |-> <<>>, function_arguments |-> <<>>]

\* the state of parse_metadata_file before the first line
ParseStart ==
    [ok |-> TRUE, parse_state |-> "NONE", current_table_properties |-> <<>>,
     current_arg_table |-> <<>>, current_arg |-> <<>>, table_arg_tables |-> <<>>]

ParseFailure(st) == [st EXCEPT !.ok = FALSE]

\* current_arg_table.setFunctionArgument(current_arg), when there is a
\* current argument; it needs a current table
setFunctionArgument(st) ==
    IF st.current_arg = <<>> THEN st
    ELSE IF st.current_arg_table = <<>> THEN ParseFailure(st)
    ELSE [st EXCEPT !.current_arg_table[1].function_arguments =
                        DictPut(@, st.current_arg[1].name, st.current_arg[1])]

\* the current argument and the current table are closed when a table starts
CloseTable(st) ==
    LET a == setFunctionArgument(st)
        b == [a EXCEPT !.current_arg = <<>>]
    IN  IF ~a.ok THEN a
        ELSE IF b.current_arg_table = <<>> THEN b
        ELSE [b EXCEPT !.table_arg_tables = Append(@, b.current_arg_table[1]),
                       !.current_arg_table = <<>>]

\* a line that holds both brackets
BracketLine(st, sline) ==
    LET token == translate(sline)
        closed == IF Text(token) \in {"ccpp-table-properties", "ccpp-arg-table"}
                  THEN CloseTable(st)
                  ELSE st
    IN  IF ~closed.ok THEN closed
        ELSE IF Text(token) = "ccpp-table-properties"
        THEN IF closed.current_table_properties # <<>>
             THEN ParseFailure(closed)
             ELSE [closed EXCEPT !.current_table_properties = <<NewItem("")>>,
                                 !.parse_state = "PROPERTIES"]
        ELSE IF Text(token) = "ccpp-arg-table"
        THEN [closed EXCEPT !.parse_state = "ARG_TABLE",
                            !.current_arg_table = <<NewItem("")>>]
        ELSE IF Len(token) = 0 THEN ParseFailure(closed)
        ELSE IF token[1] = " " /\ token[Len(token)] = " "
        THEN LET a == setFunctionArgument(closed)
             IN  IF ~a.ok THEN a
                 ELSE [a EXCEPT !.parse_state = "ARG",
                                !.current_arg = <<NewItem(Text(strip(token)))>>]
        ELSE ParseFailure(closed)

\* the whole trimmed text after the first =
ValueAfterFirstEq(sline, tokens) ==
    strip(SubSeq(sline, Len(tokens[1]) + 2, Len(sline)))

\* tokens[1].strip() of tokens=sline.split("=")
ValueOfTokens(sline, tokens) == strip(tokens[2])

\* any other line: key = value
KeyValueLine(st, sline) ==
    IF st.parse_state = "NONE" \/ ~Contains(sline, "=") THEN ParseFailure(st)
    ELSE LET tokens == SplitEq(sline)
             key == Text(strip(tokens[1]))
             value == ValueOfTokens(sline, tokens)
         IN  IF st.parse_state = "PROPERTIES"
             THEN IF /\ key \in TablePropertiesKeys
                     /\ key = "type" => Text(value) \in TableTypes
                  THEN [st EXCEPT !.current_table_properties[1] =
                                      setAttr(@, key, value)]
                  ELSE ParseFailure(st)
             ELSE IF st.parse_state = "ARG_TABLE"
             THEN IF key \in ArgumentTableKeys
                  THEN [st EXCEPT !.current_arg_table[1] = setAttr(@, key, value)]
                  ELSE ParseFailure(st)
             ELSE [st EXCEPT !.current_arg[1] = setAttr(@, key, value)]

\* the body of the loop over the lines of the file
ParseLine(st, line) ==
    LET sline == strip(line)
    IN  IF ~st.ok THEN st
        ELSE IF Contains(sline, "[") /\ Contains(sline, "]")
        THEN BracketLine(st, sline)
        ELSE KeyValueLine(st, sline)

RECURSIVE ParseLines(_, _)
ParseLines(st, lines) ==
    IF Len(lines) = 0 THEN st ELSE ParseLines(ParseLine(st, Head(lines)), Tail(lines))

\* parse_metadata_file: the table properties and the argument tables of a
\* file, or the failure of one of its asserts
parse_metadata_file(lines) ==
    LET st == ParseLines(ParseStart, lines)
        a == setFunctionArgument(st)
        tables == IF a.current_arg_table = <<>>
                  THEN a.table_arg_tables
                  ELSE Append(a.table_arg_tables, a.current_arg_table[1])
    IN  IF st.ok /\ a.ok /\ a.current_table_properties # <<>>
        THEN [ok |-> TRUE, table_properties |-> a.current_table_properties[1],
              arg_tables |-> tables]
        ELSE [ok |-> FALSE, table_properties |-> NewItem(""), arg_tables |-> <<>>]

\* the properties that ArgumentOp accepts besides name and type
ArgumentProps == {"standard_name", "long_name", "kind", "intent", "units"}

\* ArgumentOp(fn_arg.name, fn_arg.getAttr("type"), fn_arg.getAttrs()): the
\* type is required, dimensions is dropped, and a key that is left over or
\* the key optional raises
ArgumentOpOk(fn_arg) ==
    /\ getAttrOk(fn_arg, "type")
    /\ \A k \in Range(DictKeys(fn_arg.attrs)) :
           k \in ArgumentProps \cup {"type", "dimensions"}

ArgumentOp(fn_arg) ==
    [name |-> fn_arg.name,
     keys |-> Range(DictKeys(fn_arg.attrs)) \cap {"type", "kind", "intent"},
     type |-> Text(getAttr(fn_arg, "type")),
     kind |-> IF getAttrOk(fn_arg, "kind") THEN getAttr(fn_arg, "kind") ELSE <<>>,
     intent |-> IF getAttrOk(fn_arg, "intent")
                THEN Text(getAttr(fn_arg, "intent"))
                ELSE ""]

\* TableBaseOp.__init__ needs a name and a type that TableTypeKind knows
TableOpOk(table) ==
    /\ getAttrOk(table, "name")
    /\ getAttrOk(table, "type")
    /\ Text(getAttr(table, "type")) \in TableTypes

ArgumentTableOp(table) ==
    [name |-> Text(getAttr(table, "name")), type |-> Text(getAttr(table, "type")),
     args |-> [i \in DOMAIN table.function_arguments |->
                  ArgumentOp(table.function_arguments[i].v)]]

\* TablePropertiesOp(table.getAttr("name"), str(table.getAttr("type")), tables)
\* where table is what the loop over meta.arg_tables has left bound: the
\* last argument table
TablePropertiesOp(meta, tables) ==
    [name |-> tables[Len(tables)].name, type |-> tables[Len(tables)].type,
     tables |-> tables]

\* build_meta_ir: with no argument table the name table is unbound
build_meta_ir(meta) ==
    IF /\ meta.ok
       /\ Len(meta.arg_tables) > 0
       /\ \A i \in DOMAIN meta.arg_tables :
              /\ TableOpOk(meta.arg_tables[i])
              /\ \A j \in DOMAIN meta.arg_tables[i].function_arguments :
                     ArgumentOpOk(meta.arg_tables[i].function_arguments[j].v)
    THEN [ok |-> TRUE,
          op |-> TablePropertiesOp(meta, [i \in DOMAIN meta.arg_tables |->
                                             ArgumentTableOp(meta.arg_tables[i])])]
    ELSE [ok |-> FALSE, op |-> [name |-> "", type |-> "", tables |-> <<>>]]

\* ccppXML.run: the suite node followed by one table_properties node per
\* scheme file; the dictionary schemes needs the name of every file
Run ==
    /\ stage = "files"
    /\ LET metas == [i \in DOMAIN scheme_files |->
                        parse_metadata_file(scheme_files[i])]
           built == [i \in DOMAIN metas |-> build_meta_ir(metas[i])]
       IN  IF \A i \in DOMAIN metas :
                  /\ metas[i].ok
                  /\ getAttrOk(metas[i].table_properties, "name")
                  /\ built[i].ok
           THEN /\ props' = [i \in DOMAIN built |-> built[i].op]
                /\ top' = <<Node("suite", suite.name)>>
                              \o [i \in DOMAIN built |->
                                     Node("table_properties", built[i].op.name)]
                /\ stage' = "parsed"
           ELSE /\ stage' = "failed"
                /\ UNCHANGED <<props, top>>
    /\ UNCHANGED <<suite, ccpp, init_fn, fin_fn, cap, running, pc, errflg, called>>
    /\ UNCHANGED <<emitterVars, scheme_files>>

(***************************************************************************)
(* Metadata files: a table properties block, then the argument tables in   *)
(* either order, written with or without blanks around the = signs.        *)
(***************************************************************************)
Header(token) == <<"[", token, "]", "\n">>

ArgHeader(name) == <<"[", " ", name, " ", "]", "\n">>

KeyValue(blanks, key, value) ==
    IF blanks
    THEN <<" ", " ", key, " ", "=", " ">> \o value \o <<"\n">>
    ELSE <<key, "=">> \o value \o <<"\n">>

ArgLines(blanks, a) ==
    <<ArgHeader(a.name), KeyValue(blanks, "type", <<a.type>>)>>
        \o (IF "kind" \in a.keys THEN <<KeyValue(blanks, "kind", a.kind)>> ELSE <<>>)
        \o (IF "intent" \in a.keys
            THEN <<KeyValue(blanks, "intent", <<a.intent>>)>>
            ELSE <<>>)

TableLines(blanks, name, args) ==
    <<Header("ccpp-arg-table"), KeyValue(blanks, "name", <<name>>),
      KeyValue(blanks, "type", <<"scheme">>)>>
        \o Flatten([i \in DOMAIN args |-> ArgLines(blanks, args[i])])

PropertiesLines(blanks, scheme) ==
    <<Header("ccpp-table-properties"), KeyValue(blanks, "name", <<scheme>>),
      KeyValue(blanks, "type", <<"scheme">>)>>

Len512 == <<"l", "e", "n", "=", "5", "1", "2">>

KindPhys == <<"kind_phys">>

FrontInitTables ==
    { <<Arg("x", "real", "in"), Arg("errflg", "integer", "out")>>,
      <<Arg("errflg", "integer", "out"), ArgKind("y", "character", Len512, "out")>>,
      <<ArgKind("x", "real", KindPhys, "in"), Arg("errflg", "integer", "out")>>,
      <<ArgKind("x", "real", Len512, "in"), Arg("errflg", "integer", "out")>> }

FrontFinTable == <<Arg("errflg", "integer", "out")>>

\* the lines of the file of a scheme
FrontFiles(scheme) ==
    LET init(b, t) == TableLines(b, scheme \o "_init", t)
        fin(b) == TableLines(b, scheme \o "_finalize", FrontFinTable)
    IN  UNION { { PropertiesLines(b, scheme),
                  PropertiesLines(b, scheme) \o fin(b) }
                \cup UNION { { PropertiesLines(b, scheme) \o init(b, t),
                               PropertiesLines(b, scheme) \o init(b, t) \o fin(b),
                               PropertiesLines(b, scheme) \o fin(b) \o init(b, t) } :
                             t \in FrontInitTables } :
              b \in BOOLEAN }

FrontSuites ==
    { [name |-> "S", groups |-> g] :
          g \in {<<<<"A">>>>, <<<<"A", "B">>>>, <<<<"A">>, <<"B">>>>} }

\* the frontend is given the suite and the files of A and, possibly, of B
InitFront ==
    /\ stage = "files"
    /\ suite \in FrontSuites
    /\ \E a \in FrontFiles("A"),
          b \in Optional({PropertiesLines(TRUE, "B")
                              \o TableLines(TRUE, "B_init", FrontFinTable)
                              \o TableLines(TRUE, "B_finalize", FrontFinTable)}) :
           scheme_files = <<a>> \o b
    /\ props = <<>>
    /\ top = <<>>
    /\ ccpp = <<>>
    /\ InitRest

\* the frontend, then the passes
NextFront ==
    \/ Run
    \/ MetaCAPApply
    \/ SuiteCAPApply

SpecFront == InitFront /\ [][NextFront]_vars

(***************************************************************************)
(* What the claims speak about, read from the suite node and the           *)
(* table_properties nodes themselves.                                      *)
(***************************************************************************)
SchemeRefs == Flatten(suite.groups)

HasTable(scheme, suffix) ==
    \E i \in DOMAIN props :
        /\ props[i].name = scheme
        /\ \E j \in DOMAIN props[i].tables : props[i].tables[j].name = scheme \o suffix

TableArgsOf(scheme, suffix) ==
    LET file == props[CHOOSE i \in DOMAIN props : props[i].name = scheme]
    IN  file.tables[CHOOSE j \in DOMAIN file.tables :
                        file.tables[j].name = scheme \o suffix].args

RECURSIVE Pick(_, _)
\* the elements of s at the positions in I, in order
Pick(s, I) ==
    IF Len(s) = 0 THEN <<>>
    ELSE Pick(SubSeq(s, 1, Len(s) - 1), I)
             \o (IF Len(s) \in I THEN <<s[Len(s)]>> ELSE <<>>)

NamesOf(args) == [i \in DOMAIN args |-> args[i].name]

FirstSeen(names) ==
    Pick(names, {i \in DOMAIN names : \A j \in 1..(i - 1) : names[j] # names[i]})

WithIntent(args, intents) ==
    Pick(args, {i \in DOMAIN args : hasAttr(args[i], "intent") /\ args[i].intent \in intents})

\* the two calls of generateSubroutineCall made by match_and_rewrite
Phases == <<[suffix |-> "_init", r |-> init_fn], [suffix |-> "_finalize", r |-> fin_fn]>>

\* the argument names of the phase tables of the suite's schemes, as visited
PhaseArgNames(suffix) ==
    Flatten([i \in DOMAIN SchemeRefs |-> NamesOf(TableArgsOf(SchemeRefs[i], suffix))])

OpsOfKind(fn, kind) == SelectSeq(AllOps(fn.body), LAMBDA o : o.op = kind)

SlotType(fn, name) ==
    LET allocas == OpsOfKind(fn, "alloca")
    IN  allocas[CHOOSE i \in DOMAIN allocas : allocas[i].name = name].types[1]

CapInserted == \E i \in DOMAIN top : top[i].kind = "module" /\ top[i].name # "ccpp"

(***************************************************************************)
(* C1: when generateSubroutineCall succeeds, the allocated slots are the   *)
(* distinct argument names of the phase tables of the suite's schemes, one *)
(* per name, in order of first occurrence (schemes in flattened order,     *)
(* arguments in declaration order); the subroutine has no inputs, and its  *)
(* output types and the operands of its final return are these slots in    *)
(* that order.                                                             *)
(***************************************************************************)
C1_SlotsFirstSeen ==
    \A p \in DOMAIN Phases :
        Phases[p].r.ok =>
            LET fn == Phases[p].r.fn
                names == FirstSeen(PhaseArgNames(Phases[p].suffix))
                allocas == OpsOfKind(fn, "alloca")
                last == fn.body[Len(fn.body)]
            IN  /\ NamesOf(allocas) = names
                /\ fn.inputs = <<>>
                /\ fn.outputs = [i \in DOMAIN names |-> SlotType(fn, names[i])]
                /\ last.op = "return"
                /\ last.operands = [i \in DOMAIN names |-> SlotRef(names[i])]
                /\ Len(OpsOfKind(fn, "return")) = 1

\* two different schemes, the second bringing a third slot after shared ones
C1_Witness ==
    /\ stage = "cap"
    /\ SchemeRefs = <<"B", "A">>
    /\ NamesOf(OpsOfKind(init_fn.fn, "alloca")) = <<"x", "errflg", "y">>
    /\ NamesOf(TableArgsOf("A", "_init")) = <<"y", "errflg", "x">>

(***************************************************************************)
(* C2: when two schemes of the suite declare, in their tables of one       *)
(* phase, an argument of the same name with different types,               *)
(* generateSubroutineCall fails on the type comparison, no subroutine is   *)
(* produced and no cap module is inserted, in either order of the schemes. *)
(***************************************************************************)
Mismatch(suffix) ==
    \E i, j \in DOMAIN SchemeRefs :
        /\ HasTable(SchemeRefs[i], suffix) /\ HasTable(SchemeRefs[j], suffix)
        /\ \E a \in Range(TableArgsOf(SchemeRefs[i], suffix)),
              b \in Range(TableArgsOf(SchemeRefs[j], suffix)) :
               a.name = b.name /\ a.type # b.type

\* generateSubroutineCall was called for the phase
Called(r) == r.err \notin {"not run", "suite"}

C2_TypeMismatchRejected ==
    \A p \in DOMAIN Phases :
        (Mismatch(Phases[p].suffix) /\ stage \notin {"parsed", "meta"}) =>
            /\ ~Phases[p].r.ok
            /\ Phases[p].r.fn = NoFunc
            /\ Called(Phases[p].r) => Phases[p].r.err = "type mismatch"
            /\ cap = NoCap
            /\ ~CapInserted

C2_Witness ==
    /\ stage = "failed"
    /\ Mismatch("_finalize")
    /\ fin_fn.err = "type mismatch"
    /\ SchemeRefs = <<"B", "A">>

(***************************************************************************)
(* C3: the operands of the call of a scheme are the slots of its in and    *)
(* inout arguments, in declaration order; its result types are the slot    *)
(* types of its out and inout arguments, in declaration order; one copy    *)
(* per result follows the call and writes result i into the slot of the    *)
(* i-th out or inout argument.                                             *)
(***************************************************************************)
C3_IntentMapping ==
    \A p \in DOMAIN Phases :
        Phases[p].r.ok =>
            \A k \in DOMAIN SchemeRefs :
                LET fn == Phases[p].r.fn
                    args == TableArgsOf(SchemeRefs[k], Phases[p].suffix)
                    ins == WithIntent(args, {"in", "inout"})
                    outs == WithIntent(args, {"out", "inout"})
                    calls == SelectSeq(OpsOfKind(fn, "call"), LAMBDA o : o.k = k)
                    copies == SelectSeq(OpsOfKind(fn, "copy"), LAMBDA o : o.k = k)
                IN  /\ Len(calls) = 1
                    /\ calls[1].operands = [i \in DOMAIN ins |-> SlotRef(ins[i].name)]
                    /\ calls[1].types = [i \in DOMAIN outs |-> SlotType(fn, outs[i].name)]
                    /\ copies = [i \in DOMAIN outs |->
                                    Op("copy", "", k,
                                       <<Ref("call", calls[1].name, k, i),
                                         SlotRef(outs[i].name)>>, <<>>, <<>>)]

RECURSIVE Depth(_)
\* the nesting depth of the conditionals of a body
Depth(body) ==
    IF Len(body) = 0 THEN 0
    ELSE LET here == IF Head(body).op = "if" THEN 1 + Depth(Head(body).body) ELSE 0
             rest == Depth(Tail(body))
         IN  IF here >= rest THEN here ELSE rest

TopLevel(fn, kind) == SelectSeq(fn.body, LAMBDA o : o.op = kind)

(***************************************************************************)
(* C4 as stated: for N schemes the conditionals form one chain of nesting  *)
(* depth N, the conditional of scheme k+1 lying inside the body of the     *)
(* conditional of scheme k.                                                *)
(***************************************************************************)
C4_NestedChain ==
    \A p \in DOMAIN Phases :
        Phases[p].r.ok =>
            LET fn == Phases[p].r.fn
                ifs == OpsOfKind(fn, "if")
            IN  /\ Depth(fn.body) = Len(SchemeRefs)
                /\ \A i, j \in DOMAIN ifs :
                       ifs[j].k = ifs[i].k + 1 =>
                           \E m \in DOMAIN AllOps(ifs[i].body) :
                               AllOps(ifs[i].body)[m] = ifs[j]

(***************************************************************************)
(* C4 amended: for N schemes the subroutine body holds N conditionals, one *)
(* per scheme in suite order, all of them operations of the body itself    *)
(* (siblings); the body of the conditional of scheme k holds the call of   *)
(* scheme k and no conditional, so the nesting depth is 1.                 *)
(***************************************************************************)
C4_SiblingGuards ==
    \A p \in DOMAIN Phases :
        Phases[p].r.ok =>
            LET fn == Phases[p].r.fn
                ifs == TopLevel(fn, "if")
            IN  /\ Len(ifs) = Len(SchemeRefs)
                /\ Len(OpsOfKind(fn, "if")) = Len(SchemeRefs)
                /\ Depth(fn.body) = 1
                /\ \A k \in DOMAIN ifs :
                       /\ ifs[k].k = k
                       /\ ifs[k].body[1].op = "call"
                       /\ ifs[k].body[1].name = SchemeRefs[k] \o Phases[p].suffix

C4_Witness ==
    /\ stage = "cap"
    /\ Len(SchemeRefs) = MaxSchemes
    /\ Len(TopLevel(fin_fn.fn, "if")) = MaxSchemes

(***************************************************************************)
(* C5: while a generated subroutine runs, the schemes called so far are    *)
(* the first schemes of the suite, each called once and in suite order;    *)
(* once a call has left a non-zero value in errflg no further scheme is    *)
(* called; and when the subroutine returns with errflg zero, every scheme  *)
(* has been called.                                                        *)
(***************************************************************************)
ExpectedCalls ==
    [i \in DOMAIN SchemeRefs |->
        SchemeRefs[i] \o (IF running = init_fn.fn THEN "_init" ELSE "_finalize")]

CalledNames == [i \in DOMAIN called |-> called[i].name]

IsPrefix(a, b) == Len(a) <= Len(b) /\ a = SubSeq(b, 1, Len(a))

C5_ShortCircuit ==
    [][stage' \in {"exec", "done"} =>
          /\ IsPrefix(CalledNames', ExpectedCalls')
          /\ (called # <<>> /\ errflg # 0) => called' = called
          /\ (stage' = "done" /\ errflg' = 0) => CalledNames' = ExpectedCalls']_vars

\* the first of two schemes failed and the subroutine returned
C5_Witness ==
    /\ stage = "done"
    /\ Len(SchemeRefs) = 2
    /\ Len(called) = 1
    /\ errflg # 0

(***************************************************************************)
(* C6, the end-to-end scenario: suite S with one group [A, B], A_init      *)
(* declaring x (real, in) and errflg (integer, out), B_init declaring x    *)
(* (real, in), errflg (integer, out) and y (real, out).                    *)
(***************************************************************************)
Scenario ==
    /\ suite = [name |-> "S", groups |-> <<<<"A", "B">>>>]
    /\ HasTable("A", "_init") /\ HasTable("B", "_init")
    /\ TableArgsOf("A", "_init")
           = <<Arg("x", "real", "in"), Arg("errflg", "integer", "out")>>
    /\ TableArgsOf("B", "_init")
           = <<Arg("x", "real", "in"), Arg("errflg", "integer", "out"),
               Arg("y", "real", "out")>>
    /\ init_fn.ok

F64Slot == MemRefType("f64", <<>>)

I32Slot == MemRefType("i32", <<>>)

\* slots x, errflg, y; errflg set to 0; return (x, errflg, y)
ScenarioFrame(fn) ==
    /\ fn.name = "S_suite_initialize"
    /\ NamesOf(OpsOfKind(fn, "alloca")) = <<"x", "errflg", "y">>
    /\ fn.outputs = <<F64Slot, I32Slot, F64Slot>>
    /\ \E i \in DOMAIN fn.body :
           /\ fn.body[i].op = "store"
           /\ fn.body[i].operands = <<Ref("const", "", 0, 1), SlotRef("errflg")>>
           /\ \A j \in 1..i : fn.body[j].op \notin {"if", "call"}
    /\ fn.body[Len(fn.body)]
           = Op("return", "", 0, <<SlotRef("x"), SlotRef("errflg"), SlotRef("y")>>,
                <<>>, <<>>)

CallA == Op("call", "A_init", 1, <<SlotRef("x")>>, <<I32Slot>>, <<>>)

CallB == Op("call", "B_init", 2, <<SlotRef("x")>>, <<I32Slot, F64Slot>>, <<>>)

\* the conditional of scheme k tests errflg == 0
ZeroCheck(fn, cond) ==
    /\ cond.op = "if"
    /\ \E i \in DOMAIN fn.body :
           /\ cond.operands = <<Ref("cmpi", "eq", fn.body[i].k, 1)>>
           /\ fn.body[i].op = "cmpi" /\ fn.body[i].name = "eq"
           /\ fn.body[i].k = cond.k
           /\ fn.body[i].operands = <<Ref("load", "", cond.k, 1), Ref("const", "", cond.k, 1)>>
    /\ \E i \in DOMAIN fn.body :
           /\ fn.body[i].op = "load" /\ fn.body[i].k = cond.k
           /\ fn.body[i].operands = <<SlotRef("errflg")>>

\* C6 as stated: A_init is called unconditionally, B_init inside the zero-check
C6_ScenarioUnconditional ==
    Scenario =>
        LET fn == init_fn.fn
        IN  /\ ScenarioFrame(fn)
            /\ \E i \in DOMAIN fn.body : fn.body[i] = CallA
            /\ \E i \in DOMAIN fn.body :
                   /\ ZeroCheck(fn, fn.body[i])
                   /\ \E j \in DOMAIN fn.body[i].body : fn.body[i].body[j] = CallB

\* C6 amended: the generated S_suite_initialize has the slots x, errflg, y,
\* sets errflg to 0, calls A_init(x) -> errflg inside a first zero-check of
\* errflg, calls B_init(x) -> errflg, y inside a second zero-check that
\* follows the first in the subroutine body, and returns (x, errflg, y).
C6_ScenarioGuarded ==
    Scenario =>
        LET fn == init_fn.fn
            ifs == TopLevel(fn, "if")
        IN  /\ ScenarioFrame(fn)
            /\ OpsOfKind(fn, "call") = <<CallA, CallB>>
            /\ TopLevel(fn, "call") = <<>>
            /\ Len(ifs) = 2
            /\ ZeroCheck(fn, ifs[1]) /\ ZeroCheck(fn, ifs[2])
            /\ ifs[1].body
                   = <<CallA,
                       Op("copy", "", 1,
                          <<Ref("call", "A_init", 1, 1), SlotRef("errflg")>>, <<>>, <<>>),
                       Op("yield", "", 1, <<>>, <<>>, <<>>)>>
            /\ ifs[2].body
                   = <<CallB,
                       Op("copy", "", 2,
                          <<Ref("call", "B_init", 2, 1), SlotRef("errflg")>>, <<>>, <<>>),
                       Op("copy", "", 2,
                          <<Ref("call", "B_init", 2, 2), SlotRef("y")>>, <<>>, <<>>),
                       Op("yield", "", 2, <<>>, <<>>, <<>>)>>

C6_Witness == Scenario /\ stage = "cap"

(***************************************************************************)
(* C7: generate-meta-cap produces one declaration per ArgumentTable, named *)
(* after the table; its inputs are the types of the arguments with intent  *)
(* in, inout or no intent and its outputs the types of the arguments with  *)
(* intent out, inout or no intent, both in declaration order; an argument  *)
(* with any other intent makes the pass fail.                              *)
(***************************************************************************)
AllTableOps == Flatten([i \in DOMAIN props |-> props[i].tables])

NoIntent(arg) == ~hasAttr(arg, "intent")

ExpectedDecl(table_op) ==
    LET args == table_op.args
        ins == Pick(args, {i \in DOMAIN args :
                              NoIntent(args[i]) \/ args[i].intent \in {"in", "inout"}})
        outs == Pick(args, {i \in DOMAIN args :
                               NoIntent(args[i]) \/ args[i].intent \in {"out", "inout"}})
    IN  [kind |-> "func", name |-> table_op.name,
         inputs |-> [i \in DOMAIN ins |-> convert(ins[i])],
         outputs |-> [i \in DOMAIN outs |-> convert(outs[i])],
         body |-> <<>>]

UnknownIntent ==
    \E t \in Range(AllTableOps) : \E a \in Range(t.args) :
        ~NoIntent(a) /\ a.intent \notin {"in", "out", "inout"}

Decls(ops) == SelectSeq(ops, LAMBDA n : n.kind = "func")

\* the only step that changes the tree of stage parsed is generate-meta-cap
C7_MetaSignatures ==
    [][(stage = "parsed" /\ top' # top) =>
          IF UnknownIntent
          THEN stage' = "failed" /\ ~find_ccpp_module(top')
          ELSE /\ stage' = "meta" /\ find_ccpp_module(top')
               /\ Decls(ccpp') = [i \in DOMAIN AllTableOps |->
                                     ExpectedDecl(AllTableOps[i])]]_vars

\* generate-meta-cap has run on a table with an argument without intent
C7_Witness ==
    /\ stage = "meta"
    /\ \E t \in Range(AllTableOps) : \E a \in Range(t.args) : NoIntent(a)
    /\ \E i \in DOMAIN ccpp :
           ccpp[i].kind = "func" /\ Len(ccpp[i].inputs) = 1 /\ Len(ccpp[i].outputs) = 2

(***************************************************************************)
(* What makes a call of generateSubroutineCall fail, read from the tree.   *)
(***************************************************************************)
SuiteFound == \E i \in DOMAIN ccpp : ccpp[i].kind = "suite" /\ ccpp[i].name = suite.name

Resolves(suffix) == \A k \in DOMAIN SchemeRefs : HasTable(SchemeRefs[k], suffix)

PoolHas(suffix) ==
    \A k \in DOMAIN SchemeRefs :
        \E i \in DOMAIN ccpp :
            ccpp[i].kind = "func" /\ ccpp[i].name = SchemeRefs[k] \o suffix

PhaseArgs(suffix) ==
    Flatten([k \in DOMAIN SchemeRefs |-> TableArgsOf(SchemeRefs[k], suffix)])

\* every table of the phase declares errflg with intent out or inout
ErrflgConvention(suffix) ==
    \A k \in DOMAIN SchemeRefs :
        \E a \in Range(TableArgsOf(SchemeRefs[k], suffix)) :
            a.name = "errflg" /\ ~NoIntent(a) /\ a.intent \in {"out", "inout"}

\* generate-suite-cap has run on a tree with a ccpp module
SuiteCapRan == stage \in {"cap", "failed"} /\ find_ccpp_module(top)

\* generateSubroutineCall was called for phase p, or the suite was looked up for it
Attempted(p) == IF p = 1 THEN TRUE ELSE init_fn.ok

(***************************************************************************)
(* C8: an argument without intent behaves as inout in                      *)
(* generateSubroutineCall: on an input that is otherwise accepted the      *)
(* generation succeeds, and the slot of the argument is an operand of the  *)
(* scheme's call and is written back from one of its results.              *)
(***************************************************************************)
C8_NoIntentIsInout ==
    \A p \in DOMAIN Phases :
        LET suffix == Phases[p].suffix
            r == Phases[p].r
        IN  (/\ SuiteCapRan /\ Attempted(p) /\ SuiteFound
             /\ Resolves(suffix) /\ PoolHas(suffix) /\ ~Mismatch(suffix)
             /\ ErrflgConvention(suffix)
             /\ \E a \in Range(PhaseArgs(suffix)) : NoIntent(a)) =>
                /\ r.ok
                /\ \A k \in DOMAIN SchemeRefs :
                       \A a \in Range(TableArgsOf(SchemeRefs[k], suffix)) :
                           NoIntent(a) =>
                               /\ \E c \in Range(OpsOfKind(r.fn, "call")) :
                                      c.k = k /\ SlotRef(a.name) \in Range(c.operands)
                               /\ \E c \in Range(OpsOfKind(r.fn, "copy")) :
                                      c.k = k /\ c.operands[2] = SlotRef(a.name)

(***************************************************************************)
(* C9: generateSubroutineCall fails, with no subroutine and no cap module, *)
(* when the suite is not among the gathered descriptors, when a scheme has *)
(* no table <scheme><suffix>, and when <scheme><suffix> is missing from    *)
(* the pool; in every other case without a type mismatch it produces a     *)
(* subroutine.  Stated for the inputs that keep the errflg convention.     *)
(***************************************************************************)
C9_FailureCases ==
    \A p \in DOMAIN Phases :
        LET suffix == Phases[p].suffix
            r == Phases[p].r
        IN  (SuiteCapRan /\ Attempted(p)) =>
                IF ~SuiteFound \/ ~Resolves(suffix) \/ ~PoolHas(suffix)
                THEN ~r.ok /\ r.fn = NoFunc /\ cap = NoCap /\ ~CapInserted
                ELSE (~Mismatch(suffix) /\ ErrflgConvention(suffix)) => r.ok

(***************************************************************************)
(* C10: the declarations returned with a generated subroutine are one per  *)
(* distinct invoked name <scheme><suffix>, in order of first invocation,   *)
(* with the input and output types of the pool entry of that name; the     *)
(* stubs of the cap module are body-less copies of them, those of _init    *)
(* first, and no two carry the same name.                                  *)
(***************************************************************************)
InvokedNames(suffix) ==
    FirstSeen([k \in DOMAIN SchemeRefs |-> SchemeRefs[k] \o suffix])

PoolEntry(name) ==
    ccpp[CHOOSE i \in DOMAIN ccpp : ccpp[i].kind = "func" /\ ccpp[i].name = name]

ExpectedStubs(suffix) ==
    [i \in DOMAIN InvokedNames(suffix) |->
        [kind |-> "func", name |-> InvokedNames(suffix)[i],
         inputs |-> PoolEntry(InvokedNames(suffix)[i]).inputs,
         outputs |-> PoolEntry(InvokedNames(suffix)[i]).outputs,
         body |-> <<>>]]

StubsOf(module) == SelectSeq(module.ops, LAMBDA f : f.body = <<>>)

C10_StubsDeduplicated ==
    /\ \A p \in DOMAIN Phases :
           Phases[p].r.ok => Phases[p].r.sigs = ExpectedStubs(Phases[p].suffix)
    /\ stage = "cap" =>
           /\ StubsOf(cap) = ExpectedStubs("_init") \o ExpectedStubs("_finalize")
           /\ \A i, j \in DOMAIN StubsOf(cap) :
                  StubsOf(cap)[i].name = StubsOf(cap)[j].name => i = j

\* a scheme listed twice in the suite
C10_Witness ==
    /\ stage = "cap"
    /\ SchemeRefs = <<"A", "A">>
    /\ NamesOf(StubsOf(cap)) = <<"A_init", "A_finalize">>

(***************************************************************************)
(* C11: for the suite node, generate-suite-cap creates one container named *)
(* <suite>_cap and inserts it as the first node of the top-level tree; it  *)
(* holds the subroutine <suite>_suite_initialize built from the _init      *)
(* tables, the subroutine <suite>_suite_finalize built from the _finalize  *)
(* tables, and the declaration stubs of both phases, and nothing else.     *)
(***************************************************************************)
CapName == suite.name \o "_cap"

CallNames(fn) ==
    [i \in DOMAIN OpsOfKind(fn, "call") |-> OpsOfKind(fn, "call")[i].name]

CapContent ==
    LET fns == SelectSeq(cap.ops, LAMBDA f : f.body # <<>>)
    IN  /\ cap.name = CapName
        /\ Len(fns) = 2
        /\ fns[1].name = suite.name \o "_suite_initialize"
        /\ fns[2].name = suite.name \o "_suite_finalize"
        /\ CallNames(fns[1]) = [k \in DOMAIN SchemeRefs |-> SchemeRefs[k] \o "_init"]
        /\ CallNames(fns[2]) = [k \in DOMAIN SchemeRefs |-> SchemeRefs[k] \o "_finalize"]
        /\ cap.ops = fns \o ExpectedStubs("_init") \o ExpectedStubs("_finalize")

C11_CapModule ==
    [][(stage # "cap" /\ stage' = "cap") =>
          /\ top' = <<Node("module", CapName)>> \o top
          /\ \A i \in DOMAIN top : top[i] # Node("module", CapName)
          /\ CapContent']_vars

\* a cap module was inserted in front of the ccpp module for two scheme references
C11_Witness ==
    /\ stage = "cap"
    /\ Len(SchemeRefs) = 2
    /\ top = <<Node("module", CapName), CcppModule>>
    /\ Len(cap.ops) >= 4

(***************************************************************************)
(* C12: after generate-meta-cap every suite node and every                 *)
(* table_properties node of the tree is inside the one new container named *)
(* ccpp, which is the last node of the top-level tree; none remains where  *)
(* it was, none is duplicated and none is lost.                            *)
(***************************************************************************)
MetaNode(n) == n.kind \in {"suite", "table_properties"}

CountIn(ops, n) == Cardinality({i \in DOMAIN ops : ops[i] = n})

C12_MetaRelocation ==
    [][(stage = "parsed" /\ stage' = "meta") =>
          /\ \A i \in DOMAIN top' : ~MetaNode(top'[i])
          /\ top'[Len(top')] = CcppModule
          /\ CountIn(top', CcppModule) = 1
          /\ \A n \in Range(top) \cup Range(ccpp') :
                 MetaNode(n) => CountIn(ccpp', n) = CountIn(top, n)]_vars

\* generate-meta-cap has moved a suite node and two table_properties nodes
C12_Witness ==
    /\ stage = "meta"
    /\ top = <<CcppModule>>
    /\ Len(Decls(ccpp)) = Len(AllTableOps)
    /\ Len(SelectSeq(ccpp, MetaNode)) = 3

(***************************************************************************)
(* C13: every scheme-phase table invoked by a generated subroutine         *)
(* declares an integer argument errflg with intent out or inout; no        *)
(* subroutine is produced when a scheme's phase table lacks errflg or      *)
(* declares it with intent in.                                             *)
(***************************************************************************)
C13_ErrflgMandatory ==
    \A p \in DOMAIN Phases :
        Phases[p].r.ok =>
            \A k \in DOMAIN SchemeRefs :
                \E a \in Range(TableArgsOf(SchemeRefs[k], Phases[p].suffix)) :
                    /\ a.name = "errflg" /\ a.type = "integer"
                    /\ ~NoIntent(a) /\ a.intent \in {"out", "inout"}

(***************************************************************************)
(* C19: the body of a generated subroutine is, in this order: all slot     *)
(* allocations, the constant zero and its store into the errflg slot, the  *)
(* guarded scheme calls in suite order, the return; no call and no read of *)
(* errflg precedes the initialisation and nothing follows the return.      *)
(***************************************************************************)
C19_BodyOrder ==
    \A p \in DOMAIN Phases :
        Phases[p].r.ok =>
            LET body == Phases[p].r.fn.body
                a == Len(SelectSeq(body, LAMBDA o : o.op = "alloca"))
                calls == OpsOfKind(Phases[p].r.fn, "call")
            IN  /\ Len(body) >= a + 3
                /\ \A i \in 1..a : body[i].op = "alloca"
                /\ body[a + 1].op = "const"
                /\ body[a + 2].op = "store"
                /\ body[a + 2].operands = <<[def |-> "const", name |-> "", k |-> body[a + 1].k,
                                              idx |-> 1], SlotRef("errflg")>>
                /\ \A i \in (a + 3)..(Len(body) - 1) :
                       body[i].op \in {"const", "load", "cmpi", "if"}
                /\ body[Len(body)].op = "return"
                /\ \A o \in Range(AllOps(body)) :
                       o.op \in {"alloca", "return"} => o \in Range(body)
                /\ [i \in DOMAIN calls |-> calls[i].name]
                       = [k \in DOMAIN SchemeRefs |-> SchemeRefs[k] \o Phases[p].suffix]
                /\ \A i, j \in DOMAIN body :
                       (body[i].op = "if" /\ body[j].op = "if" /\ i < j)
                           => body[i].k < body[j].k

\* a subroutine for two schemes with three slots
C19_Witness ==
    /\ init_fn.ok
    /\ Len(SchemeRefs) = 2
    /\ Len(OpsOfKind(init_fn.fn, "alloca")) = 3
    /\ Len(OpsOfKind(init_fn.fn, "call")) = 2

(***************************************************************************)
(* The metadata units in which two argument tables carry the same name.    *)
(***************************************************************************)
DuplicateTables ==
    \E i \in DOMAIN props :
        \E j1, j2 \in DOMAIN props[i].tables :
            j1 < j2 /\ props[i].tables[j1].name = props[i].tables[j2].name

KindOf(a) == IF hasAttr(a, "kind") THEN a.kind ELSE <<>>

\* two schemes declare a name with the same type and different kinds
KindMismatch(suffix) ==
    \E k1, k2 \in DOMAIN SchemeRefs :
        \E a \in Range(TableArgsOf(SchemeRefs[k1], suffix)) :
            \E b \in Range(TableArgsOf(SchemeRefs[k2], suffix)) :
                a.name = b.name /\ a.type = b.type /\ KindOf(a) # KindOf(b)

(***************************************************************************)
(* C14: two schemes of one generated subroutine that declare an argument   *)
(* of the same name and type with different kinds are rejected: no         *)
(* subroutine is produced from the first declaration.                      *)
(***************************************************************************)
C14_KindMismatchRejected ==
    \A p \in DOMAIN Phases :
        (/\ ~DuplicateTables /\ Called(Phases[p].r)
         /\ Resolves(Phases[p].suffix) /\ KindMismatch(Phases[p].suffix))
            => ~Phases[p].r.ok

(***************************************************************************)
(* C15: two argument tables of the same name in one metadata unit are      *)
(* fatal: the recovery of the metadata model never accepts the unit, so no *)
(* pass completes on it.                                                   *)
(***************************************************************************)
C15_DuplicateTablesFatal == DuplicateTables => stage \notin {"meta", "cap"}

(***************************************************************************)
(* C20: slot allocation is total: on an input that is otherwise accepted,  *)
(* an integer or real variable gets a scalar slot, a character variable of *)
(* kind len=N a buffer of length N, and a character variable with no kind  *)
(* or a kind without a length a scalar slot.                               *)
(***************************************************************************)
ExpectedSlot(a) ==
    [memref |-> TRUE,
     elem |-> CASE a.type = "integer" -> "i32"
                [] a.type = "real" -> "f64"
                [] OTHER -> "i8",
     shape |-> IF /\ a.type = "character" /\ hasAttr(a, "kind")
                  /\ Len(a.kind) > 4 /\ SubSeq(a.kind, 1, 4) = <<"l", "e", "n", "=">>
                  /\ IntOk(SubSeq(a.kind, 5, Len(a.kind)))
               THEN <<IntOf(SubSeq(a.kind, 5, Len(a.kind)))>>
               ELSE <<>>]

C20_AllocationTotal ==
    \A p \in DOMAIN Phases :
        LET suffix == Phases[p].suffix
            r == Phases[p].r
            args == PhaseArgs(suffix)
            first == Pick(args, {i \in DOMAIN args :
                                    \A j \in 1..(i - 1) : args[j].name # args[i].name})
        IN  (/\ ~DuplicateTables /\ SuiteCapRan /\ Attempted(p) /\ SuiteFound
             /\ Resolves(suffix) /\ PoolHas(suffix)
             /\ ~Mismatch(suffix) /\ ~KindMismatch(suffix) /\ ErrflgConvention(suffix)
             /\ \A a \in Range(args) :
                    ~NoIntent(a) /\ a.type \in {"integer", "real", "character"}) =>
                /\ r.ok
                /\ \A i \in DOMAIN first :
                       SlotType(r.fn, first[i].name) = ExpectedSlot(first[i])

(***************************************************************************)
(* C16: the names bound to distinct values in one context are pairwise     *)
(* distinct, whatever the hints, the requests and the descents, the names  *)
(* arg_<k> of returned slots included; a value that has a name keeps it on *)
(* every later request.                                                    *)
(***************************************************************************)
NamesDistinct(variables) ==
    \A i, j \in DOMAIN variables : variables[i].v = variables[j].v => i = j

C16_NamesDistinct ==
    /\ \A c \in DOMAIN stack : NamesDistinct(Bindings(stack[c]))
    /\ (returned # NoRequest /\ DictHas(Bindings(Top), returned.val) /\ ~returned.fresh)
           => DictGet(Bindings(Top), returned.val) = returned.name

(***************************************************************************)
(* C17: while a descended context is alive the bindings of its parent are  *)
(* those it had at the descent, so they are the same after the return;     *)
(* every binding the parent had at the descent is visible unchanged in the *)
(* child; a hint that is free in the current context is bound verbatim,    *)
(* also when a returned child had bound it.                                *)
(***************************************************************************)
ParentUntouched ==
    \A c \in 2..Len(stack) : Bindings(stack[c - 1]) = stack[c].at_descent

Inherited ==
    \A c \in 2..Len(stack) :
        \A b \in Range(stack[c].at_descent) :
            /\ DictHas(Bindings(stack[c]), b.k)
            /\ DictGet(Bindings(stack[c]), b.k) = b.v

GeneratedOps == AllOps(init_fn.fn.body) \o AllOps(fin_fn.fn.body)

Printed == stage = "printed" /\ CapInserted

\* the lines printed on behalf of an operation, the closing end if apart
OpLines == SelectSeq(output.stmts, LAMBDA l : l.op # "" /\ l.text # "end if")

C18_OwnStatements ==
    (Printed /\ output.ok) =>
        \A i \in DOMAIN GeneratedOps :
            GeneratedOps[i].op \in {"const", "load", "cmpi"} =>
                \E j \in DOMAIN OpLines :
                    /\ OpLines[j].op = GeneratedOps[i].op
                    /\ OpLines[j].k = GeneratedOps[i].k

\* the names that a slot of a generated subroutine can be printed under
SlotTexts == {prefix \o Str(i) : prefix \in {"v", "arg_"}, i \in 0..3}

\* the operations that print a statement, in the order of the blocks
StatementOps == SelectSeq(GeneratedOps, LAMBDA o : o.op \in {"store", "if", "call"})

OpKey(o) == <<o.op, o.k>>

\* C18 as the emitter behaves: only the stores, conditionals and calls print
\* a statement, in block order; a constant, a load or a comparison prints
\* nothing at its own position and is rendered inside the statement that
\* uses it: <slot> = 0 for the store, if (<slot> .eq. 0) then for the guard.
C18_InlineRendering ==
    Printed =>
        /\ IsPrefix([j \in DOMAIN OpLines |-> OpKey(OpLines[j])],
                    [i \in DOMAIN StatementOps |-> OpKey(StatementOps[i])])
        /\ output.ok => Len(OpLines) = Len(StatementOps)
        /\ \A j \in DOMAIN OpLines :
               /\ OpLines[j].op = "store" =>
                      \E n \in SlotTexts : OpLines[j].text = n \o " = 0"
               /\ OpLines[j].op = "if" =>
                      \E n \in SlotTexts :
                          OpLines[j].text = "if (" \o n \o " .eq. 0) then"

\* a suite of two schemes has been printed to the end
C18_Witness ==
    /\ Printed
    /\ output.ok
    /\ \E j \in DOMAIN OpLines : OpLines[j].op = "if" /\ OpLines[j].k = 2
    /\ \E i \in DOMAIN GeneratedOps : GeneratedOps[i].op = "cmpi"

(***************************************************************************)
(* C21: generate-suite-cap changes the tree only by inserting the cap      *)
(* module: the suite node, the table_properties nodes with their tables    *)
(* and arguments, and the declarations inside ccpp keep their position and *)
(* their properties; the stubs of the cap module are copies, so every      *)
(* declaration of the pool is still inside ccpp.  A run that fails changes *)
(* nothing.                                                                *)
(***************************************************************************)
\* a step of generate-suite-cap that found the ccpp module
SuiteCapStep == stage' = "cap" \/ init_fn' # init_fn

C21_FrameEffect ==
    [][SuiteCapStep =>
          /\ suite' = suite
          /\ props' = props
          /\ ccpp' = ccpp
          /\ IF stage' = "cap"
             THEN /\ Len(top') = Len(top) + 1
                  /\ top'[1].kind = "module"
                  /\ Tail(top') = top
                  /\ \A i \in DOMAIN StubsOf(cap') :
                         \E j \in DOMAIN ccpp' : ccpp'[j] = StubsOf(cap')[i]
             ELSE top' = top]_vars

\* a cap module with stubs was inserted and the pool still holds each of them
C21_Witness ==
    /\ stage = "cap"
    /\ Len(StubsOf(cap)) >= 2
    /\ Len(Decls(ccpp)) >= Len(StubsOf(cap))
    /\ \E i \in DOMAIN top : top[i] = CcppModule

(***************************************************************************)
(* C22: every tree that generate-suite-cap produces is printed to the end  *)
(* by print_to_ftn, also when a scheme has in or inout arguments, whose    *)
(* call operands are allocation slots.                                     *)
(***************************************************************************)
C22_EmitterAccepts == Printed => output.ok

(***************************************************************************)
(* C23: every call of a generated subroutine agrees with the stub of the   *)
(* same name in the cap module: as many operands as the stub has inputs,   *)
(* as many results as it has outputs, and the same types at each position. *)
(***************************************************************************)
GeneratedFns == SelectSeq(cap.ops, LAMBDA f : f.body # <<>>)

OperandTypes(fn, call) ==
    [i \in DOMAIN call.operands |-> SlotType(fn, call.operands[i].name)]

C23_CallsMatchStubs ==
    stage = "cap" =>
        \A f \in DOMAIN GeneratedFns :
            \A c \in DOMAIN OpsOfKind(GeneratedFns[f], "call") :
                LET call == OpsOfKind(GeneratedFns[f], "call")[c]
                IN  \E s \in DOMAIN StubsOf(cap) :
                        /\ StubsOf(cap)[s].name = call.name
                        /\ StubsOf(cap)[s].inputs = OperandTypes(GeneratedFns[f], call)
                        /\ StubsOf(cap)[s].outputs = call.types

(***************************************************************************)
(* C24: in every block of a generated subroutine an operation comes after  *)
(* the operations that produce its operands, in the same block or in the   *)
(* enclosing one: the load of errflg before the comparison, the comparison *)
(* before the conditional.                                                 *)
(***************************************************************************)
Defines(o, ref) ==
    /\ o.op = ref.def
    /\ o.k = ref.k
    /\ ref.def = "alloca" => o.name = ref.name

DefinedBefore(block, i, ref) == \E j \in 1..(i - 1) : Defines(block[j], ref)

C24_DefinitionsFirst ==
    \A p \in DOMAIN Phases :
        Phases[p].r.ok =>
            LET body == Phases[p].r.fn.body
            IN  \A t \in DOMAIN body :
                    /\ \A r \in DOMAIN body[t].operands :
                           DefinedBefore(body, t, body[t].operands[r])
                    /\ \A i \in DOMAIN body[t].body :
                           \A r \in DOMAIN body[t].body[i].operands :
                               \/ DefinedBefore(body[t].body, i,
                                                body[t].body[i].operands[r])
                               \/ DefinedBefore(body, t, body[t].body[i].operands[r])

(***************************************************************************)
(* What the claims about the frontend speak about, read from the lines of  *)
(* the files themselves.                                                   *)
(***************************************************************************)
\* the frontend has built the tree of the scheme files
FrontendBuilt == scheme_files # <<>> /\ props # <<>>

\* the frontend has run on the scheme files
FrontendRan == scheme_files # <<>> /\ stage # "files"

IsBracketLine(line) == Contains(line, "[") /\ Contains(line, "]")

IsHeader(line, token) == IsBracketLine(line) /\ Text(translate(strip(line))) = token

\* the line gives a value to the key
IsKeyLine(line, key) ==
    /\ ~IsBracketLine(line)
    /\ Contains(line, "=")
    /\ Text(strip(SplitEq(strip(line))[1])) = key

\* the text that the line gives to its key
GivenValue(line) == Text(ValueAfterFirstEq(strip(line), SplitEq(strip(line))))

\* the values that the lines of a file give to a key of an argument, in order
GivenValues(lines, key) ==
    LET given == SelectSeq(lines, LAMBDA l : IsKeyLine(l, key))
    IN  [i \in DOMAIN given |-> GivenValue(given[i])]

\* the values of the key held by the arguments of a table_properties node,
\* in order
StoredValues(p, key) ==
    LET args == SelectSeq(Flatten([j \in DOMAIN p.tables |-> p.tables[j].args]),
                          LAMBDA a : key \in a.keys)
    IN  [i \in DOMAIN args |-> IF key = "kind" THEN Text(args[i].kind)
                               ELSE args[i].intent]

\* the lines, by number, that start a table of the given sort
HeadersOf(lines, token) ==
    SelectSeq([i \in DOMAIN lines |-> i], LAMBDA i : IsHeader(lines[i], token))

\* the value given to the key in the block that starts at line h
BlockValue(lines, h, key) ==
    GivenValue(lines[CHOOSE j \in (h + 1)..Len(lines) :
                         /\ IsKeyLine(lines[j], key)
                         /\ \A m \in (h + 1)..j : ~IsBracketLine(lines[m])])

\* the names of the argument tables of a file, in order
GivenTableNames(lines) ==
    LET hs == HeadersOf(lines, "ccpp-arg-table")
    IN  [i \in DOMAIN hs |-> BlockValue(lines, hs[i], "name")]

\* the name and the type given by the table properties block of a file
GivenProperty(lines, key) ==
    BlockValue(lines, HeadersOf(lines, "ccpp-table-properties")[1], key)

(***************************************************************************)
(* C25: for every key = value line of a metadata file the value attached   *)
(* to the current argument is the whole trimmed text after the first =     *)
(* sign, further = signs included: in every tree that the frontend has     *)
(* built, the kinds and the intents held by the arguments of a file are    *)
(* the texts that follow the first = of its kind lines and of its intent   *)
(* lines, in order, so that `kind = len=512` is held as `len=512`.         *)
(***************************************************************************)
C25_ValueAfterFirstEq ==
    FrontendBuilt =>
        \A i \in DOMAIN props :
            \A key \in {"kind", "intent"} :
                StoredValues(props[i], key) = GivenValues(scheme_files[i], key)

(***************************************************************************)
(* C26: the table_properties node built for a metadata file carries the    *)
(* name and the type given in the table properties block of the file and   *)
(* owns all the argument tables of the file, whatever their number, none   *)
(* included; the metadata model recovered from the tree is keyed by these  *)
(* names: once the frontend has run there is one node per file, with the   *)
(* given name and type and with the tables of the given names, and the     *)
(* keys of the metadata model are the given names.                         *)
(***************************************************************************)
C26_TablePropertiesNode ==
    FrontendRan =>
        /\ Len(props) = Len(scheme_files)
        /\ \A i \in DOMAIN props :
               /\ props[i].name = GivenProperty(scheme_files[i], "name")
               /\ props[i].type = GivenProperty(scheme_files[i], "type")
               /\ [j \in DOMAIN props[i].tables |-> props[i].tables[j].name]
                      = GivenTableNames(scheme_files[i])
        /\ DictKeys(BuildMetaDataDescriptions(props))
               = [i \in DOMAIN scheme_files |->
                     GivenProperty(scheme_files[i], "name")]

====
